---------------------------- MODULE Spec2Model ----------------------------
(***************************************************************************)
(* Model of timeseries/invers_disp2coef.py (PyGdalSAR): the truncated-SVD  *)
(* solver (invSVD, consInvert), the per-epoch spatial corrector            *)
(* (estim_ramp, empirical_cor), the per-pixel temporal decomposition       *)
(* (temporal_decomp) and the outer iteration of the script.                *)
(*                                                                         *)
(* Python vectors are functions over 0..n-1, as the source indexes them.   *)
(* Floating-point values are exact integers (or exact fractions kept as a  *)
(* numerator and a denominator); the value NaN is the integer NaN below.   *)
(***************************************************************************)
EXTENDS Integers, Sequences, FiniteSets, TLC

VARIABLES
  \* ---- consInvert / invSVD (one call) ----
  cfg,      \* basis configuration: [inter, ncos, pos]
  ineq,     \* "yes" | "no"
  A,        \* design matrix: [rows, cols]
  b,        \* observation vector
  spc,      \* position inside consInvert
  minit,    \* initial vector of the bounded refinement
  mmin,     \* lower bounds
  mmax,     \* upper bounds
  fsoln,    \* solution
  sigmam,   \* uncertainties
  exc,      \* exception that left consInvert ("none" if none)
  calls,    \* solver routines invoked so far, in order
  \* ---- invSVD on its own ----
  svdA,     \* matrix
  svdb,     \* observations
  svdx,     \* result
  svdpc,    \* "input" | "done"
  \* ---- temporal_decomp(pix), one pixel ----
  tN,       \* number of epochs N
  tcfg,     \* basis configuration
  tDisp,    \* maps_flata[i, j, :], a value or "NaN" per epoch
  tOut,     \* the tuple returned
  tCalls,   \* calls of consInvert made
  tPc,      \* "call" | "returned"
  \* ---- empirical_cor(l), one epoch ----
  sMap,     \* maps[:, :, l], a value or "NaN" per pixel
  sCfg,     \* [flat, radar, refwin]
  sEst,     \* what estim_ramp returned
  sOut,     \* the tuple returned by empirical_cor
  sCalls,   \* routines invoked
  sExc,     \* exception that left empirical_cor
  sPc,      \* position inside empirical_cor
  \* ---- empirical_cor(l), the choice of the order for one epoch ----
  eIn,      \* [flat, ivar, nfit, radar, valid]: valid[r] says line r holds data
  eSel,     \* [itemp, temp_flat, ivar_temp, nfit_temp]
  ePc,      \* "scan" | "select" | "selected"
  \* ---- empirical_cor(l) and estim_ramp: the samples and the design matrices ----
  rIn,      \* [order, radar, ivar, nfit, crop, crop_emp, screen]
  rSamp,    \* pixels (az, rg) selected for the fit
  rFit,     \* design matrix of the fit, a sequence of columns
  rFull,    \* design matrix of the whole grid, a sequence of columns
  rExc,     \* exception that left estim_ramp
  rPc,      \* position inside empirical_cor / estim_ramp
  \* ---- estim_ramp: the elevation bins, by the number of pixels in each ----
  bIn,      \* [radar, hist]: hist[j] pixels have their elevation in interval j
  bOut,     \* [topobins, exc]
  bPc,      \* "call" | "binned" | "raised"
  \* ---- the basis functions of the script and the columns of G in temporal_decomp ----
  kIn,      \* [inter, seasonal, semianual, ncos, pos, nsse, dem, nvect, ineq]
  kOut,     \* the lists and the indices built at setup
  kG,       \* [cols, lin, seas, vect, minit]
  kPc,      \* "setup" | "built" | "raised" | "decomposed" | "prior"
  \* ---- the amplitude and phase of the periodic terms ----
  aIn,      \* the basis flags and the coefficients and uncertainties of one pixel
  aOut,     \* amplitude, phase and their uncertainties, per pair
  aExc,     \* the exception raised
  aPc,      \* "seasonal" | "semianual" | "done" | "raised"
  \* ---- the outer iteration of the script ----
  lcfg,     \* [niter, spatialiter, apsf, sampling, crop, ncos, ineq]
  ii,       \* iteration counter of the for loop
  lpc,      \* position of the controller
  lexc,     \* exception that ended the script ("none" if none)
  rms,      \* [defined, v]: the array rms, until "del rms"
  inaps,    \* weights handed to the temporal fits, one fraction per epoch
  acc,      \* [aps, n_aps]: the two accumulators of the temporal pass
  pool,     \* [pending, results]: tasks of the running pool.map
  fl,       \* index of the fetch loop
  store,    \* what the controller has stored: per epoch and per pixel
  floorLog, \* the last flooring: [site, pre, post]
  passes    \* passes completed so far, in order

solverVars == <<cfg, ineq, A, b, spc, minit, mmin, mmax, fsoln, sigmam, exc, calls>>
svdVars == <<svdA, svdb, svdx, svdpc>>
temporalVars == <<tN, tcfg, tDisp, tOut, tCalls, tPc>>
spatialVars == <<sMap, sCfg, sEst, sOut, sCalls, sExc, sPc>>
orderVars == <<eIn, eSel, ePc>>

rampVars == <<rIn, rSamp, rFit, rFull, rExc, rPc>>
binVars == <<bIn, bOut, bPc>>
basisVars == <<kIn, kOut, kG, kPc>>
ampVars == <<aIn, aOut, aExc, aPc>>
loopVars == <<lcfg, ii, lpc, lexc, rms, inaps, acc, pool, fl, store, floorLog, passes>>

vars == <<solverVars, svdVars, temporalVars, spatialVars, orderVars, rampVars, binVars, basisVars, ampVars, loopVars>>

notSolver == <<svdVars, temporalVars, spatialVars, orderVars, rampVars, binVars, basisVars, ampVars, loopVars>>
notSvd == <<solverVars, temporalVars, spatialVars, orderVars, rampVars, binVars, basisVars, ampVars, loopVars>>
notTemporal == <<solverVars, svdVars, spatialVars, orderVars, rampVars, binVars, basisVars, ampVars, loopVars>>
notSpatial == <<solverVars, svdVars, temporalVars, orderVars, rampVars, binVars, basisVars, ampVars, loopVars>>
notOrder == <<solverVars, svdVars, temporalVars, spatialVars, rampVars, binVars, basisVars, ampVars, loopVars>>
notLoop == <<solverVars, svdVars, temporalVars, spatialVars, orderVars, rampVars, binVars, basisVars, ampVars>>
notAmp == <<solverVars, svdVars, temporalVars, spatialVars, orderVars, rampVars, binVars, basisVars, loopVars>>
notBasis == <<solverVars, svdVars, temporalVars, spatialVars, orderVars, rampVars, binVars, ampVars, loopVars>>
notBin == <<solverVars, svdVars, temporalVars, spatialVars, orderVars, rampVars, basisVars, ampVars, loopVars>>
notRamp == <<solverVars, svdVars, temporalVars, spatialVars, orderVars, binVars, basisVars, ampVars, loopVars>>

-----------------------------------------------------------------------------
(* Bounds of the model *)

MaxCos  == 2     \* coseismic steps in a basis configuration
MaxCols == 3     \* columns of a matrix handed to invSVD on its own
TMaxN   == 6     \* epochs of the pixel handed to temporal_decomp
SLines  == 2     \* lines of the map handed to empirical_cor
SCols   == 2     \* columns of the map handed to empirical_cor
LN      == 3     \* epochs of the stack in the outer iteration
LPix    == 3     \* pixels of the stack in the outer iteration
MaxIter == 2     \* largest --niter
ELines  == 22    \* lines of the estimation window when the order is chosen
RLines  == 4     \* lines of the stack (nlines) in the sample selection
RCols   == 4     \* columns of the stack (ncol) in the sample selection
NBins   == 4     \* elevation intervals of the binning
MaxSse  == 1     \* slow-slip events in a basis configuration
MaxVect == 2     \* vector files in a basis configuration

-----------------------------------------------------------------------------
(* Values and vectors *)

NaN == 99999     \* float('NaN')

IsNaN(x) == x = NaN

\* arithmetic in which NaN propagates
Sub(x, y) == IF IsNaN(x) \/ IsNaN(y) THEN NaN ELSE x - y
Add(x, y) == IF IsNaN(x) \/ IsNaN(y) THEN NaN ELSE x + y
Abs(x) == IF IsNaN(x) THEN NaN ELSE IF x < 0 THEN -x ELSE x

VLen(v) == Cardinality(DOMAIN v)

Vec(n, x) == [j \in 0..(n-1) |-> x]

Min2(x, y) == IF x < y THEN x ELSE y

\* np.insert(v, at, val)
NpInsert(v, at, val) ==
  [j \in 0..VLen(v) |-> IF j < at THEN v[j] ELSE IF j = at THEN val ELSE v[j-1]]

\* np.delete(v, idx): the entries of v whose index is not in idx, in order
NpDelete(v, idx) ==
  LET drop == {idx[z] : z \in DOMAIN idx}
      keep == {j \in DOMAIN v : j \notin drop}
      src(k) == CHOOSE j \in keep : Cardinality({i \in keep : i < j}) = k
  IN  [k \in 0..(Cardinality(keep)-1) |-> v[src(k)]]

-----------------------------------------------------------------------------
(* Basis layout: the column index of every function of the model *)

\* pos entries: -1 is 'None' on the command line, 0 a zero time; both disable
\* the transient of that step. 1 stands for any positive characteristic time.
PosValues == {-1, 0, 1}

NEnabled(pos, upto) == Cardinality({k \in DOMAIN pos : k < upto /\ pos[k] > 0})

Layout(c) ==
  LET i0      == 1
      i1      == IF c.inter = "yes" THEN i0 + 1 ELSE i0
      idxco   == [i \in 0..(c.ncos-1) |-> i1 + i]
      i2      == i1 + c.ncos
      npo     == NEnabled(c.pos, VLen(c.pos))
      idxpo   == [z \in 0..(npo-1) |-> i2 + z]
      idxfull == [i \in DOMAIN c.pos |->
                    IF c.pos[i] > 0 THEN i2 + NEnabled(c.pos, i) ELSE 0]
  IN  [ indexinter  |-> i0,
        indexco     |-> idxco,
        indexpo     |-> idxpo,
        indexpofull |-> idxfull,
        M           |-> i2 + npo ]

\* mutant: the two lists must have the same length
SetupAcceptsEqualOnly(c) == c.ncos = VLen(c.pos)

\* the check of the two lists made when the arguments are read
SetupAccepts(c) == ~ (VLen(c.pos) > 0 /\ c.ncos # VLen(c.pos))

Configs ==
  { c \in [ inter : {"yes", "no"}, ncos : 0..MaxCos,
            pos : UNION { [0..(n-1) -> PosValues] : n \in 0..MaxCos } ] :
      SetupAccepts(c) }

-----------------------------------------------------------------------------
(* Matrices.  A matrix is [rows |-> R, cols |-> c], c a vector of columns;  *)
(* a column [r |-> row, v |-> value] holds its only non-zero entry v at row *)
(* r, and no two non-zero columns share a row, so that the singular values  *)
(* are the column values and the decomposition is exact.  A column with     *)
(* v = 0 is a zero column.                                                  *)

NCols(X) == VLen(X.cols)

NonZeroCols(X) == {j \in DOMAIN X.cols : X.cols[j].v # 0}

\* singular values returned by lst.svd(A, full_matrices=False): min(R, C) of
\* them, the non-zero column values and exact zeros for the rest
NSingular(X) == Min2(X.rows, NCols(X))

HasZeroSingular(X) == Cardinality(NonZeroCols(X)) < NSingular(X)

\* machine scale of the singular values: cond = CondUnits
CondUnits == 2

\* lst.lstsq(A, b)[0]: minimum-norm least squares, only exact zeros dropped
LstSq(X, y) ==
  [j \in DOMAIN X.cols |->
     IF X.cols[j].v # 0 THEN y[X.cols[j].r] \div X.cols[j].v ELSE 0]

\* the try block of invSVD: inv(diag(eignv)) with the entries below cond
\* set to zero afterwards
TruncatedSolve(X, y, cond) ==
  [j \in DOMAIN X.cols |->
     IF X.cols[j].v # 0 /\ ~ (X.cols[j].v < cond)
     THEN y[X.cols[j].r] \div X.cols[j].v ELSE 0]

\* lst.inv(s) raises on a singular s, i.e. when a singular value is exactly 0
InvRaises(X) == HasZeroSingular(X)

invSVD(X, y, cond) ==
  IF InvRaises(X) THEN LstSq(X, y) ELSE TruncatedSolve(X, y, cond)

\* np.delete(A, idx, 1)
DeleteCols(X, idx) == [rows |-> X.rows, cols |-> NpDelete(X.cols, idx)]


-----------------------------------------------------------------------------
(* consInvert(A, b, sigmad, ineq, cond, iter, acc), one call *)

Inf == 1000      \* np.inf

\* mutant: only a too short b is refused
DimensionMismatchShortOnly(X, y) == X.rows > VLen(y)

\* if A.shape[0] != len(b): raise ValueError(...)
DimensionMismatch(X, y) == X.rows # VLen(y)

CheckDims ==
  /\ spc = "call"
  /\ IF DimensionMismatch(A, b)
     THEN /\ spc' = "raised"
          /\ exc' = "ValueError"
     ELSE /\ spc' = "checked"
          /\ exc' = exc
  /\ UNCHANGED <<cfg, ineq, A, b, minit, mmin, mmax, fsoln, sigmam, calls>>
  /\ UNCHANGED notSolver

\* ineq == 'no': fsoln = invSVD(A, b, cond)
SolveUnconstrained ==
  /\ spc = "checked"
  /\ ineq = "no"
  /\ fsoln' = invSVD(A, b, CondUnits)
  /\ calls' = Append(calls, "invSVD")
  /\ spc' = "solved"
  /\ UNCHANGED <<cfg, ineq, A, b, minit, mmin, mmax, sigmam, exc>>
  /\ UNCHANGED notSolver

\* for z in range(len(indexpo)): mtemp = np.insert(mtemp, indexpo[z], 0)
RECURSIVE RebuildFull(_, _, _)
RebuildFull(mtemp, indexpo, z) ==
  IF z = VLen(indexpo) THEN mtemp
  ELSE RebuildFull(NpInsert(mtemp, indexpo[z], 0), indexpo, z + 1)

\* prior solution without postseismic, full vector, unbounded bounds
PriorSolve ==
  /\ spc = "checked"
  /\ ineq # "no"
  /\ LET lay   == Layout(cfg)
         Ain   == DeleteCols(A, lay.indexpo)
         mtemp == invSVD(Ain, b, CondUnits)
     IN  /\ minit' = RebuildFull(mtemp, lay.indexpo, 0)
         /\ mmin' = Vec(lay.M, -Inf)
         /\ mmax' = Vec(lay.M, Inf)
  /\ calls' = Append(calls, "invSVD")
  /\ spc' = "prior"
  /\ UNCHANGED <<cfg, ineq, A, b, fsoln, sigmam, exc>>
  /\ UNCHANGED notSolver

\* mutant: the coseismic interval is written [0, c0] whatever the sign of c0
BoundStepNoSign(i, c, mi, bd) ==
  LET lay == Layout(c)
      co  == lay.indexco[i]
      po  == lay.indexpofull[i]
  IN  IF c.pos[i] > 0 /\ mi[co] > 0
      THEN [ lo |-> [[bd.lo EXCEPT ![po] = 0] EXCEPT ![co] = 0],
             hi |-> [[bd.hi EXCEPT ![po] = Inf] EXCEPT ![co] = mi[co]] ]
      ELSE IF c.pos[i] > 0 /\ mi[co] < 0
      THEN [ lo |-> [[bd.lo EXCEPT ![po] = -Inf] EXCEPT ![co] = 0],
             hi |-> [[bd.hi EXCEPT ![po] = 0] EXCEPT ![co] = mi[co]] ]
      ELSE bd

\* mutant: the test of pos[i] is left out
BoundStepNoGuard(i, c, mi, bd) ==
  LET lay == Layout(c)
      co  == lay.indexco[i]
      po  == lay.indexpofull[i]
  IN  IF mi[co] > 0
      THEN [ lo |-> [[bd.lo EXCEPT ![po] = 0] EXCEPT ![co] = 0],
             hi |-> [[bd.hi EXCEPT ![po] = Inf] EXCEPT ![co] = mi[co]] ]
      ELSE IF mi[co] < 0
      THEN [ lo |-> [[bd.lo EXCEPT ![po] = -Inf] EXCEPT ![co] = mi[co]],
             hi |-> [[bd.hi EXCEPT ![po] = 0] EXCEPT ![co] = 0] ]
      ELSE bd

\* one turn of the loop over the coseismic steps
BoundStep(i, c, mi, bd) ==
  LET lay == Layout(c)
      co  == lay.indexco[i]
      po  == lay.indexpofull[i]
  IN  IF c.pos[i] > 0 /\ mi[co] > 0
      THEN [ lo |-> [[bd.lo EXCEPT ![po] = 0] EXCEPT ![co] = 0],
             hi |-> [[bd.hi EXCEPT ![po] = Inf] EXCEPT ![co] = mi[co]] ]
      ELSE IF c.pos[i] > 0 /\ mi[co] < 0
      THEN [ lo |-> [[bd.lo EXCEPT ![po] = -Inf] EXCEPT ![co] = mi[co]],
             hi |-> [[bd.hi EXCEPT ![po] = 0] EXCEPT ![co] = 0] ]
      ELSE bd

RECURSIVE BoundsLoop(_, _, _, _)
BoundsLoop(i, c, mi, bd) ==
  IF i = c.ncos THEN bd ELSE BoundsLoop(i + 1, c, mi, BoundStep(i, c, mi, bd))

\* pos[i] is read for every i in range(len(indexco))
PosIndexError(c) == \E i \in 0..(c.ncos-1) : i \notin DOMAIN c.pos

BuildBounds ==
  /\ spc = "prior"
  /\ IF PosIndexError(cfg)
     THEN /\ spc' = "raised"
          /\ exc' = "IndexError"
          /\ UNCHANGED <<mmin, mmax>>
     ELSE LET bd == BoundsLoop(0, cfg, minit, [lo |-> mmin, hi |-> mmax])
          IN  /\ mmin' = bd.lo
              /\ mmax' = bd.hi
              /\ spc' = "bounded"
              /\ exc' = exc
  /\ UNCHANGED <<cfg, ineq, A, b, minit, fsoln, sigmam, calls>>
  /\ UNCHANGED notSolver

\* opt.fmin_slsqp(_func, minit, bounds=..., ...)[0]: some point inside the
\* bounds; a column without bounds keeps the value the data alone give it,
\* a bounded one ends on either side of its interval.
Bounded(j) == ~ (mmin[j] = -Inf /\ mmax[j] = Inf)

LowSide(j)  == IF mmin[j] = -Inf THEN mmax[j] - 1 ELSE mmin[j]
HighSide(j) == IF mmax[j] = Inf THEN mmin[j] + 1 ELSE mmax[j]

SlsqpResults ==
  { [j \in DOMAIN minit |->
       IF ~ Bounded(j) THEN minit[j]
       ELSE IF j \in S THEN LowSide(j) ELSE HighSide(j)] :
    S \in SUBSET {j \in DOMAIN minit : Bounded(j)} }

Refine ==
  /\ spc = "bounded"
  /\ \E x \in SlsqpResults : fsoln' = x
  /\ calls' = Append(calls, "fmin_slsqp")
  /\ spc' = "solved"
  /\ UNCHANGED <<cfg, ineq, A, b, minit, mmin, mmax, sigmam, exc>>
  /\ UNCHANGED notSolver

\* np.linalg.inv(np.dot(A.T, A)) raises on a singular matrix
NormalSingular(X) == Cardinality(NonZeroCols(X)) < NCols(X)

\* scale = 1./(A.shape[0]-A.shape[1]) raises ZeroDivisionError
ScaleRaises(X) == X.rows = NCols(X)

\* the try/except around the uncertainties
Sigma(X) ==
  IF NormalSingular(X) \/ ScaleRaises(X)
  THEN Vec(NCols(X), "NaN") ELSE Vec(NCols(X), "num")

PostFit ==
  /\ spc = "solved"
  /\ sigmam' = Sigma(A)
  /\ spc' = "returned"
  /\ UNCHANGED <<cfg, ineq, A, b, minit, mmin, mmax, fsoln, exc, calls>>
  /\ UNCHANGED notSolver

\* the matrices and observations of the calls that are modelled: column j
\* sits on row j (a zero column when there is no such row); the coseismic
\* columns may be zero columns and their observations may have either sign
SolverValues == {0, 4}
SolverObs == {-4, 4}

SolverMatrices(c) ==
  LET lay == Layout(c)
      M   == lay.M
      co  == {lay.indexco[i] : i \in DOMAIN lay.indexco}
  IN  { [rows |-> R, cols |-> [j \in 0..(M-1) |-> [r |-> IF j < R THEN j ELSE 0,
                                                      v |-> IF j < R THEN d[j] ELSE 0]]] :
          R \in {M - 1, M, M + 1} \ {0},
          d \in { e \in [0..(M-1) -> SolverValues] : \A j \in 0..(M-1) : j \notin co => e[j] = 4 } }

SolverObservations(c, X) ==
  LET lay == Layout(c)
      co  == {lay.indexco[i] : i \in DOMAIN lay.indexco}
  IN  { y \in [0..(X.rows-1) -> SolverObs] : \A j \in 0..(X.rows-1) : j \notin co => y[j] = 4 }
      \cup { Vec(X.rows - 1, 4), Vec(X.rows + 1, 4) }

SolverStart ==
  /\ spc = "call"
  /\ minit = Vec(0, 0)
  /\ mmin = Vec(0, 0)
  /\ mmax = Vec(0, 0)
  /\ fsoln = Vec(0, 0)
  /\ sigmam = Vec(0, 0)
  /\ exc = "none"
  /\ calls = << >>

\* the parts of the program a specification does not exercise stay as they
\* are before their first call
SolverIdle ==
  /\ cfg = [inter |-> "yes", ncos |-> 0, pos |-> Vec(0, 0)]
  /\ ineq = "no"
  /\ A = [rows |-> 0, cols |-> Vec(0, 0)]
  /\ b = Vec(0, 0)
  /\ SolverStart

SvdIdle ==
  /\ svdA = [rows |-> 0, cols |-> Vec(0, 0)]
  /\ svdb = Vec(0, 0)
  /\ svdx = Vec(0, 0)
  /\ svdpc = "input"

TemporalIdle ==
  /\ tN = 0
  /\ tcfg = [inter |-> "yes", ncos |-> 0, pos |-> Vec(0, 0)]
  /\ tDisp = Vec(0, 0)
  /\ tOut = Vec(0, 0)
  /\ tCalls = << >>
  /\ tPc = "call"

SpatialIdle ==
  /\ sMap = Vec(0, 0)
  /\ sCfg = [flat |-> 0, radar |-> FALSE, refwin |-> FALSE]
  /\ sEst = Vec(0, 0)
  /\ sOut = Vec(0, 0)
  /\ sCalls = << >>
  /\ sExc = "none"
  /\ sPc = "call"

OrderIdle ==
  /\ eIn = [flat |-> 0, ivar |-> 0, nfit |-> 0, radar |-> FALSE, valid |-> Vec(0, 0)]
  /\ eSel = Vec(0, 0)
  /\ ePc = "scan"

RampIdle ==
  /\ rIn = Vec(0, 0)
  /\ rSamp = {}
  /\ rFit = << >>
  /\ rFull = << >>
  /\ rExc = "none"
  /\ rPc = "select"

AmpIdle ==
  /\ aIn = Vec(0, 0)
  /\ aOut = Vec(0, 0)
  /\ aExc = "none"
  /\ aPc = "seasonal"

BinIdle ==
  /\ bIn = [radar |-> FALSE, hist |-> Vec(0, 0)]
  /\ bOut = Vec(0, 0)
  /\ bPc = "call"

BasisIdle ==
  /\ kIn = Vec(0, 0)
  /\ kOut = Vec(0, 0)
  /\ kG = Vec(0, 0)
  /\ kPc = "setup"

LoopIdle ==
  /\ lcfg = [niter |-> 0, spatialiter |-> "no", apsf |-> "no", sampling |-> 1,
             crop |-> "full", ncos |-> 0, ineq |-> "no"]
  /\ ii = 0
  /\ lpc = "setup"
  /\ lexc = "none"
  /\ rms = [defined |-> FALSE, v |-> Vec(0, 0)]
  /\ inaps = Vec(0, 0)
  /\ acc = [aps |-> Vec(0, 0), n_aps |-> Vec(0, 0)]
  /\ pool = [kind |-> "none", pending |-> {}, results |-> Vec(0, 0)]
  /\ fl = 0
  /\ store = Vec(0, 0)
  /\ floorLog = [site |-> "none", pre |-> Vec(0, 0), post |-> Vec(0, 0)]
  /\ passes = << >>

InitSolver ==
  /\ SvdIdle /\ TemporalIdle /\ SpatialIdle /\ LoopIdle /\ OrderIdle
  /\ AmpIdle
  /\ BasisIdle
  /\ BinIdle
  /\ RampIdle
  /\ cfg \in Configs
  /\ ineq \in {"no", "yes"}
  /\ A \in SolverMatrices(cfg)
  /\ b \in SolverObservations(cfg, A)
  /\ SolverStart

NextSolver ==
  \/ CheckDims
  \/ SolveUnconstrained
  \/ PriorSolve
  \/ BuildBounds
  \/ Refine
  \/ PostFit

SpecSolver == InitSolver /\ [][NextSolver]_vars

-----------------------------------------------------------------------------
(* The setup of the script, from the arguments to the start of the loop *)

\* what --linear, --coseismic and --postseismic may hold
Arguments ==
  [ inter : {"yes", "no"}, ncos : 0..MaxCos,
    pos : UNION { [0..(n-1) -> PosValues] : n \in 0..MaxCos } ]

\* the arguments are read (l.323-550); the two lists are compared at l.363
ReadArguments ==
  /\ spc = "args"
  /\ IF SetupAccepts(cfg)
     THEN /\ spc' = "load"
          /\ exc' = exc
     ELSE /\ spc' = "aborted"
          /\ exc' = "Exception"
  /\ UNCHANGED <<cfg, ineq, A, b, minit, mmin, mmax, fsoln, sigmam, calls>>
  /\ UNCHANGED notSolver

\* the list of images and the cube are read (l.560-598)
LoadStack ==
  /\ spc = "load"
  /\ calls' = Append(calls, "load")
  /\ spc' = "basis"
  /\ UNCHANGED <<cfg, ineq, A, b, minit, mmin, mmax, fsoln, sigmam, exc>>
  /\ UNCHANGED notSolver

\* the basis functions are laid out (l.866-952); the estimations follow
BuildBasis ==
  /\ spc = "basis"
  /\ calls' = Append(calls, "basis")
  /\ spc' = "estimate"
  /\ UNCHANGED <<cfg, ineq, A, b, minit, mmin, mmax, fsoln, sigmam, exc>>
  /\ UNCHANGED notSolver

InitSetup ==
  /\ SvdIdle /\ TemporalIdle /\ SpatialIdle /\ LoopIdle /\ OrderIdle
  /\ AmpIdle
  /\ BasisIdle
  /\ BinIdle
  /\ RampIdle
  /\ cfg \in Arguments
  /\ ineq \in {"no", "yes"}
  /\ A = [rows |-> 0, cols |-> Vec(0, 0)]
  /\ b = Vec(0, 0)
  /\ spc = "args"
  /\ minit = Vec(0, 0)
  /\ mmin = Vec(0, 0)
  /\ mmax = Vec(0, 0)
  /\ fsoln = Vec(0, 0)
  /\ sigmam = Vec(0, 0)
  /\ exc = "none"
  /\ calls = << >>

NextSetup == ReadArguments \/ LoadStack \/ BuildBasis

SpecSetup == InitSetup /\ [][NextSetup]_vars

\* C15 as stated: if the coseismic and the postseismic lists have different
\* lengths the run aborts at setup, before the stack is loaded and before any
\* estimate; if they have equal lengths setup does not abort for this reason.
C15_LengthMismatchAborts ==
  /\ cfg.ncos # VLen(cfg.pos) => (spc \in {"args", "aborted"} /\ calls = << >>)
  /\ cfg.ncos = VLen(cfg.pos) => spc # "aborted"

\* C15 amended: if a postseismic list is given and its length differs from
\* that of the coseismic list, the run aborts at setup with an exception,
\* before the stack is loaded and before any estimate; if the lengths are
\* equal, or no postseismic list is given, setup does not abort for this
\* reason.
C15_GivenPosLengthMismatchAborts ==
  /\ (VLen(cfg.pos) > 0 /\ cfg.ncos # VLen(cfg.pos)) =>
       /\ spc \in {"args", "aborted"}
       /\ calls = << >>
       /\ spc = "aborted" => exc = "Exception"
  /\ (VLen(cfg.pos) = 0 \/ cfg.ncos = VLen(cfg.pos)) =>
       /\ spc # "aborted"
       /\ exc = "none"

\* a run aborted for a postseismic list shorter than the coseismic list
C15_Witness ==
  /\ spc = "aborted"
  /\ VLen(cfg.pos) > 0
  /\ cfg.ncos > VLen(cfg.pos)

-----------------------------------------------------------------------------
(* Properties of consInvert *)

\* C3: consInvert raises the dimension error exactly when the number of rows
\* of A differs from len(b), for either ineq, and before any solver routine
\* is invoked.
C3_DimensionErrorFirst ==
  spc # "call" =>
    /\ A.rows # VLen(b) <=> exc = "ValueError"
    /\ A.rows # VLen(b) => spc = "raised" /\ calls = << >>
    /\ calls # << >> => A.rows = VLen(b)

C3_Witness ==
  /\ spc = "raised" /\ exc = "ValueError" /\ ineq = "yes"
  /\ VLen(b) > A.rows /\ calls = << >>

\* C4: with matching dimensions no exception leaves consInvert, a solution
\* and uncertainties are returned, and the uncertainties are all NaN when
\* A^T A is singular or rows <= columns.
C4_NoExceptionEscapes ==
  /\ exc \in {"none", "ValueError"}
  /\ exc = "ValueError" => A.rows # VLen(b)
  /\ spc = "returned" =>
       /\ VLen(fsoln) = NCols(A) /\ VLen(sigmam) = NCols(A)
       /\ (NormalSingular(A) \/ A.rows <= NCols(A)) =>
            \A j \in DOMAIN sigmam : sigmam[j] = "NaN"

\* the prior estimate of step i: the solve without the postseismic columns
PriorCoseismic(i) ==
  invSVD(DeleteCols(A, Layout(cfg).indexpo), b, CondUnits)[Layout(cfg).indexco[i]]

EnabledSteps == {i \in 0..(cfg.ncos-1) : i \in DOMAIN cfg.pos /\ cfg.pos[i] > 0}
DisabledSteps == {i \in 0..(cfg.ncos-1) : i \in DOMAIN cfg.pos /\ ~ (cfg.pos[i] > 0)}

BoundsBuilt == ineq = "yes" /\ spc \in {"bounded", "solved", "returned"}

C7_DisabledStepUnbounded ==
  BoundsBuilt =>
    /\ \A i \in DisabledSteps :
         LET co == Layout(cfg).indexco[i]
         IN  mmin[co] = -Inf /\ mmax[co] = Inf
    /\ mmin[0] = -Inf /\ mmax[0] = Inf
    /\ \A j \in DOMAIN mmin :
         Bounded(j) => \E i \in EnabledSteps :
                          j \in {Layout(cfg).indexco[i], Layout(cfg).indexpofull[i]}

C7_Witness ==
  /\ spc = "returned" /\ ineq = "yes"
  /\ \E i \in DisabledSteps : PriorCoseismic(i) # 0 /\ Layout(cfg).indexpofull[i] = 0
  /\ EnabledSteps # {}

-----------------------------------------------------------------------------
(* invSVD(A, b, cond) on its own *)

SvdValues == {0, 1, 2, 4}    \* 1 is below cond, 2 is cond itself
SvdObs == {-4, 4}

SvdMatrices ==
  { [rows |-> R, cols |-> [j \in 0..(n-1) |-> [r |-> IF j < R THEN j ELSE 0,
                                                  v |-> IF j < R THEN d[j] ELSE 0]]] :
      <<n, R, d>> \in { t \in (1..MaxCols) \X (1..(MaxCols+1)) \X
                              UNION { [0..(k-1) -> SvdValues] : k \in 1..MaxCols } :
                        /\ VLen(t[3]) = t[1]
                        /\ t[2] \in {t[1] - 1, t[1], t[1] + 1} } }

InitSvd ==
  /\ SolverIdle /\ TemporalIdle /\ SpatialIdle /\ LoopIdle /\ OrderIdle
  /\ AmpIdle
  /\ BasisIdle
  /\ BinIdle
  /\ RampIdle
  /\ svdA \in SvdMatrices
  /\ svdb \in [0..(svdA.rows-1) -> SvdObs]
  /\ svdx = Vec(0, 0)
  /\ svdpc = "input"

RunInvSVD ==
  /\ svdpc = "input"
  /\ svdx' = invSVD(svdA, svdb, CondUnits)
  /\ svdpc' = "done"
  /\ UNCHANGED <<svdA, svdb>>
  /\ UNCHANGED notSvd

NextSvd == RunInvSVD

SpecSvd == InitSvd /\ [][NextSvd]_vars

\* C5: in the solution of invSVD every singular value strictly below cond
\* contributes zero and every one at or above cond its reciprocal, also when
\* a singular value is exactly 0.
C5_TruncatedPseudoInverse ==
  svdpc = "done" =>
    \A j \in DOMAIN svdA.cols :
      LET c == svdA.cols[j]
      IN  /\ c.v < CondUnits => svdx[j] = 0
          /\ c.v >= CondUnits => svdx[j] * c.v = svdb[c.r]

-----------------------------------------------------------------------------
(* temporal_decomp(pix), one pixel *)

\* decimal dates of the epochs and the first date
Dates(l) == l
datemin == 0

\* basis functions
ReferenceG(t) == 1
InterseismicG(t) == t - datemin
Heaviside(t) == IF t >= 0 THEN 1 ELSE 0
CoseismicG(t, to) == Heaviside(t - to)

\* date of the coseismic step of the configurations used here
CosDate(n) == n \div 2

\* G[row, l] for the valid epoch of that row, columns in the order of basis
GEntry(c, n, t, col) ==
  IF col = 0 THEN ReferenceG(t)
  ELSE IF c.inter = "yes" /\ col = Layout(c).indexinter THEN InterseismicG(t)
  ELSE CoseismicG(t, CosDate(n))

\* np.dot(G, m) on the row of epoch t
Forward(c, n, t, m) ==
  LET M == Layout(c).M
      term(col) == GEntry(c, n, t, col) * m[col]
      RECURSIVE sum(_)
      sum(col) == IF col = M THEN 0 ELSE term(col) + sum(col + 1)
  IN  sum(0)

\* values the solver may hand back for a coefficient
FitValues == {0, 1}

\* if kk > N/6
EnoughSamples(kk, n) == 6 * kk > n

\* uncertainties as consInvert returns them for this G
FitSigma(c, n, k) ==
  LET M == Layout(c).M
      cosConstant == \E i \in DOMAIN Layout(c).indexco :
                       \/ \A l \in k : CoseismicG(Dates(l), CosDate(n)) = 0
                       \/ \A l \in k : CoseismicG(Dates(l), CosDate(n)) = 1
  IN  IF Cardinality(k) <= M \/ cosConstant THEN Vec(M, "NaN") ELSE Vec(M, "num")

\* mutant: a pixel that is not fitted counts at every epoch
SkippedPixelCounted(c, n) ==
  [ m |-> Vec(Layout(c).M, 0), sigmam |-> Vec(Layout(c).M, "NaN"),
    mdisp |-> Vec(n, NaN), mlin |-> Vec(n, NaN),
    aps_tmp |-> Vec(n, 0), naps_tmp |-> Vec(n, 1) ]

\* the tuple returned for a pixel that is not fitted
SkippedPixel(c, n) ==
  [ m |-> Vec(Layout(c).M, 0), sigmam |-> Vec(Layout(c).M, "NaN"),
    mdisp |-> Vec(n, NaN), mlin |-> Vec(n, NaN),
    aps_tmp |-> Vec(n, 0), naps_tmp |-> Vec(n, 0) ]

\* the tuple returned for a fitted pixel with solution m
FittedPixel(c, n, disp, k, m) ==
  LET mdisp == [l \in 0..(n-1) |-> IF l \in k THEN Forward(c, n, Dates(l), m) ELSE NaN]
  IN  [ m |-> m, sigmam |-> FitSigma(c, n, k),
        mdisp |-> mdisp,
        mlin |-> [l \in 0..(n-1) |->
                    IF l \in k /\ c.inter = "yes"
                    THEN InterseismicG(Dates(l)) * m[Layout(c).indexinter] ELSE NaN],
        aps_tmp |-> [l \in 0..(n-1) |-> IF l \in k THEN Abs(Sub(disp[l], mdisp[l])) ELSE 0],
        naps_tmp |-> [l \in 0..(n-1) |-> IF l \in k THEN 1 ELSE 0] ]

ValidEpochs(disp) == {l \in DOMAIN disp : ~ IsNaN(disp[l])}

TemporalDecomp ==
  /\ tPc = "call"
  /\ LET k == ValidEpochs(tDisp)
     IN  IF EnoughSamples(Cardinality(k), tN)
         THEN /\ \E m \in [0..(Layout(tcfg).M - 1) -> FitValues] :
                   tOut' = FittedPixel(tcfg, tN, tDisp, k, m)
              /\ tCalls' = Append(tCalls, "consInvert")
         ELSE /\ tOut' = SkippedPixel(tcfg, tN)
              /\ tCalls' = tCalls
  /\ tPc' = "returned"
  /\ UNCHANGED <<tN, tcfg, tDisp>>
  /\ UNCHANGED notTemporal

TDispValues == {NaN, 0, 2}

TemporalConfigs == {c \in Configs : c.ncos <= 1 /\ VLen(c.pos) = 0}

InitTemporal ==
  /\ SolverIdle /\ SvdIdle /\ SpatialIdle /\ LoopIdle /\ OrderIdle
  /\ AmpIdle
  /\ BasisIdle
  /\ BinIdle
  /\ RampIdle
  /\ tN \in 1..TMaxN
  /\ tcfg \in TemporalConfigs
  /\ tDisp \in [0..(tN-1) -> TDispValues]
  /\ tOut = Vec(0, 0)
  /\ tCalls = << >>
  /\ tPc = "call"

NextTemporal == TemporalDecomp

SpecTemporal == InitTemporal /\ [][NextTemporal]_vars

\* C2: a pixel with fewer than N/6 valid samples never reaches the solver and
\* comes back with a coefficient vector, an uncertainty vector and a modeled
\* series that are NaN in every entry.
C2_SkippedPixelAllNaN ==
  (tPc = "returned" /\ 6 * Cardinality(ValidEpochs(tDisp)) < tN) =>
    /\ tCalls = << >>
    /\ \A j \in DOMAIN tOut.m : IsNaN(tOut.m[j])
    /\ \A j \in DOMAIN tOut.sigmam : tOut.sigmam[j] = "NaN"
    /\ \A l \in DOMAIN tOut.mdisp : IsNaN(tOut.mdisp[l])

-----------------------------------------------------------------------------
(* empirical_cor(l), one epoch, without crop (ibeg = jbeg = 0) *)

Pix == (0..(SLines-1)) \X (0..(SCols-1))

ibeg_emp == 0
jbeg_emp == 0

RECURSIVE SumOver(_, _)
SumOver(f, S) ==
  IF S = {} THEN 0
  ELSE LET p == CHOOSE q \in S : TRUE IN f[p] + SumOver(f, S \ {p})

\* np.nansum(x)
NanSum(x) == SumOver(x, {p \in DOMAIN x : ~ IsNaN(x[p])})

\* the maps the loader leaves in the stack: the reference epoch is zero where
\* the reference is valid and NaN elsewhere; in every other epoch a zero has
\* been turned into NaN
ReferenceMaps == [Pix -> {0, NaN}]
DataMaps == [Pix -> {-1, 1, NaN}]

\* mutant: the estimation is run on every epoch
NeedsEstimationAlways(map) == TRUE

\* if np.nansum(maps[:,:,l]) != 0
NeedsEstimation(map) == NanSum(map) # 0

\* parameters the ramp inversion may hand back
RampPars(flat) ==
  IF flat = 0 THEN {[a |-> 0, b |-> 0]} ELSE [a : {0, 1}, b : {0, 1}]

\* ramp rebuilt over the full grid: order 0 leaves zeros, order 1 is
\* a*(column - jbeg_emp) + b
RampOf(flat, pars) ==
  [p \in Pix |-> IF flat = 0 THEN 0 ELSE pars.a * (p[2] - jbeg_emp) + pars.b]

\* np.sqrt(np.nanmean(res**2)), kept as the sum of squares and the count
RmsOf(res) ==
  LET ok == {p \in DOMAIN res : ~ IsNaN(res[p])}
  IN  [kind |-> "fit", ss |-> SumOver([p \in DOMAIN res |-> res[p] * res[p]], ok),
       n |-> Cardinality(ok)]

RmsSentinel == [kind |-> "sentinel", ss |-> 1, n |-> 1]

\* mutant: the flattened map forgets the ramp
EstimRampNoRamp(los, flat, pars) ==
  LET ramp == RampOf(flat, pars)
      topo == [p \in Pix |-> 0]
  IN  [ ramp |-> ramp,
        flata |-> [p \in Pix |-> Sub(los[p], topo[p])],
        topo |-> topo,
        rms |-> RmsOf([p \in Pix |-> Sub(los[p], ramp[p])]),
        noramps |-> [p \in Pix |-> Sub(los[p], ramp[p])] ]

\* estim_ramp without an elevation raster: (ramp, flata, topo, rms, noramps)
EstimRamp(los, flat, pars) ==
  LET ramp == RampOf(flat, pars)
      topo == [p \in Pix |-> 0]
  IN  [ ramp |-> ramp,
        flata |-> [p \in Pix |-> Sub(Sub(los[p], ramp[p]), topo[p])],
        topo |-> topo,
        rms |-> RmsOf([p \in Pix |-> Sub(los[p], ramp[p])]),
        noramps |-> [p \in Pix |-> Sub(los[p], ramp[p])] ]

\* the else branch: no estimation on the image set to zero
SkipEstimation(map) ==
  [ ramp |-> [p \in Pix |-> 0], flata |-> map, topo |-> [p \in Pix |-> 0],
    rms |-> RmsSentinel, noramps |-> map ]

SkipTest ==
  /\ sPc = "call"
  /\ IF NeedsEstimation(sMap)
     THEN /\ sPc' = "estimate"
          /\ sEst' = sEst
     ELSE /\ sPc' = "mask"
          /\ sEst' = SkipEstimation(sMap)
  /\ UNCHANGED <<sMap, sCfg, sOut, sCalls, sExc>>
  /\ UNCHANGED notSpatial

\* with an elevation raster estim_ramp reads mintopo and maxtopo, which are
\* names of empirical_cor only: NameError
Estimate ==
  /\ sPc = "estimate"
  /\ sCalls' = Append(sCalls, "estim_ramp")
  /\ IF sCfg.radar
     THEN /\ sPc' = "raised"
          /\ sExc' = "NameError"
          /\ sEst' = sEst
     ELSE /\ \E pars \in RampPars(sCfg.flat) : sEst' = EstimRamp(sMap, sCfg.flat, pars)
          /\ sPc' = IF sCfg.refwin THEN "refwin" ELSE "mask"
          /\ sExc' = sExc
  /\ UNCHANGED <<sMap, sCfg, sOut>>
  /\ UNCHANGED notSpatial

\* the try block of the reference window: map_flata[:,:,l] indexes a 2-D array
\* with three indices, the IndexError is swallowed by the bare except and the
\* three maps are left as estim_ramp returned them
ReReference(est) == est

ReferenceWindow ==
  /\ sPc = "refwin"
  /\ sEst' = ReReference(sEst)
  /\ sCalls' = Append(sCalls, "reference_window")
  /\ sPc' = "mask"
  /\ UNCHANGED <<sMap, sCfg, sOut, sExc>>
  /\ UNCHANGED notSpatial

\* set ramp to NaN to have ramp of the size of the images
MaskOutputs(est) ==
  [ est EXCEPT !.ramp = [p \in Pix |-> IF IsNaN(est.flata[p]) THEN NaN ELSE est.ramp[p]],
               !.topo = [p \in Pix |-> IF IsNaN(est.flata[p]) THEN NaN ELSE est.topo[p]] ]

ReturnOutputs ==
  /\ sPc = "mask"
  /\ sOut' = MaskOutputs(sEst)
  /\ sPc' = "returned"
  /\ UNCHANGED <<sMap, sCfg, sEst, sCalls, sExc>>
  /\ UNCHANGED notSpatial

InitSpatial ==
  /\ SolverIdle /\ SvdIdle /\ TemporalIdle /\ LoopIdle /\ OrderIdle
  /\ AmpIdle
  /\ BasisIdle
  /\ BinIdle
  /\ RampIdle
  /\ sMap \in ReferenceMaps \cup DataMaps
  /\ sCfg \in [flat : {0, 1}, radar : BOOLEAN, refwin : BOOLEAN]
  /\ sEst = Vec(0, 0)
  /\ sOut = Vec(0, 0)
  /\ sCalls = << >>
  /\ sExc = "none"
  /\ sPc = "call"

NextSpatial ==
  \/ SkipTest
  \/ Estimate
  \/ ReferenceWindow
  \/ ReturnOutputs

SpecSpatial == InitSpatial /\ [][NextSpatial]_vars

\* C1: when empirical_cor has returned (after an estimation, after the skip
\* of a zero epoch, or after the reference-window step) the flattened value
\* is the original value minus ramp minus topography wherever it is valid.
C1_FlattenedIdentity ==
  sPc = "returned" =>
    \A p \in Pix :
      ~ IsNaN(sOut.flata[p]) =>
        /\ ~ IsNaN(sOut.ramp[p]) /\ ~ IsNaN(sOut.topo[p])
        /\ sOut.flata[p] = sMap[p] - sOut.ramp[p] - sOut.topo[p]

C1_Witness ==
  /\ sPc = "returned" /\ sCfg.refwin
  /\ sCalls = <<"estim_ramp", "reference_window">>
  /\ \E p \in Pix : ~ IsNaN(sOut.ramp[p]) /\ sOut.ramp[p] # 0
  /\ \E p \in Pix : IsNaN(sOut.flata[p])

\* C8: for an epoch whose map is all zero empirical_cor does not call
\* estim_ramp and returns ramp = 0, topography = 0 and flattened = 0 at every
\* pixel, with the RMS sentinel.
C8_ZeroEpochSkipped ==
  (sPc \in {"mask", "returned", "estimate", "refwin", "raised"} /\ \A p \in Pix : sMap[p] = 0) =>
    /\ sCalls = << >>
    /\ sPc \in {"mask", "returned"}
    /\ sPc = "returned" =>
         /\ \A p \in Pix : sOut.ramp[p] = 0 /\ sOut.topo[p] = 0 /\ sOut.flata[p] = 0
         /\ sOut.rms = RmsSentinel

C8_Witness ==
  /\ sPc = "returned" /\ \A p \in Pix : sMap[p] = 0
  /\ sCfg.flat = 1 /\ sCfg.refwin

-----------------------------------------------------------------------------
(* Fractions n/d, d > 0, for the weights *)

Frac(n, d) == [n |-> n, d |-> d]

RECURSIVE Gcd(_, _)
Gcd(x, y) == IF y = 0 THEN x ELSE Gcd(y, x % y)

Norm(q) == LET g == Gcd(q.n, q.d) IN Frac(q.n \div g, q.d \div g)

FLess(x, y) == x.n * y.d < y.n * x.d

PercentileQ == 2

\* np.nanpercentile(w, 2) of finite weights: linear interpolation between the
\* two smallest values at the position (N-1)*2/100 (below 1 for N <= 50)
Percentile2(w) ==
  LET N  == VLen(w)
      i0 == CHOOSE i \in DOMAIN w : \A j \in DOMAIN w : ~ FLess(w[j], w[i])
      rest == DOMAIN w \ {i0}
      s0 == w[i0]
      s1 == IF rest = {} THEN s0
            ELSE w[CHOOSE i \in rest : \A j \in rest : ~ FLess(w[j], w[i])]
      k  == (N - 1) * PercentileQ
  IN  Norm(Frac((100 - k) * s0.n * s1.d + k * s1.n * s0.d, 100 * s0.d * s1.d))

\* mutant: the low weights are set to the smallest weight
FloorWeightsToMin(w) ==
  LET minaps == Percentile2(w)
      lowest == w[CHOOSE i \in DOMAIN w : \A j \in DOMAIN w : ~ FLess(w[j], w[i])]
  IN  [l \in DOMAIN w |-> IF FLess(w[l], minaps) THEN lowest ELSE w[l]]

\* minaps = np.nanpercentile(w, 2); w[np.flatnonzero(w < minaps)] = minaps
FloorWeights(w) ==
  LET minaps == Percentile2(w)
  IN  [l \in DOMAIN w |-> IF FLess(w[l], minaps) THEN minaps ELSE w[l]]

-----------------------------------------------------------------------------
(* The outer iteration: for ii in range(niter) *)

imref == 0

FileWeights == {1, 2}      \* values read from the --aps file
RmsValues == {0, 2}        \* rms returned by empirical_cor for a data epoch
MisfitValues == {3}        \* |disp - mdisp| of a fitted pixel

Epochs == 0..(LN-1)

\* the weight vectors of the --aps file: all epochs alike, or one epoch with
\* the low value
FileWeightVectors ==
  { w \in [Epochs -> FileWeights] :
      Cardinality({l \in Epochs : w[l] = 1}) \in {1, LN} }

\* what temporal_decomp hands back for the accumulators: zeros for a pixel
\* that is skipped, the misfit and a count of 1 at the valid epochs otherwise
PixelResults ==
  { [ aps  |-> [l \in Epochs |-> IF l \in K THEN e ELSE 0],
      naps |-> [l \in Epochs |-> IF l \in K THEN 1 ELSE 0] ] :
    K \in {{}, Epochs, Epochs \ {LN - 1}}, e \in MisfitValues }

\* work = range(0, (iend-ibeg)*(jend-jbeg), sampling)
Work(sampling) == {pix \in 0..(LPix-1) : pix % sampling = 0}
WorkLen(sampling) == Cardinality(Work(sampling))

\* the event arguments the outer iteration is explored with: no event and
\* the default solver, or one coseismic step without --postseismic and
\* --ineq=yes
LoopEventArgs == {[ncos |-> 0, ineq |-> "no"], [ncos |-> 1, ineq |-> "yes"]}

\* initialize qual (l.971-984) and the arrays of the loop (l.3362-3370);
\* -1 stands for 'not stored by any iteration'
Setup ==
  /\ lpc = "setup"
  /\ IF lcfg.apsf = "no"
     THEN /\ inaps' = [l \in Epochs |-> Frac(1, 1)]
          /\ floorLog' = floorLog
     ELSE \E w \in FileWeightVectors :
            LET pre == [l \in Epochs |-> Frac(w[l], 1)]
            IN  /\ inaps' = FloorWeights(pre)
                /\ floorLog' = [site |-> "seed", pre |-> pre, post |-> FloorWeights(pre)]
  /\ rms' = [defined |-> TRUE, v |-> [l \in Epochs |-> 0]]
  /\ store' = [ ramp |-> [l \in Epochs |-> -1],
                flata |-> [l \in Epochs |-> -1],
                topo |-> [l \in Epochs |-> -1],
                noramps |-> [l \in Epochs |-> -1],
                rms |-> [l \in Epochs |-> -1],
                coef |-> [p \in 0..(LPix-1) |-> [pixel |-> -1, iter |-> -1]] ]
  /\ lpc' = "iter_top"
  /\ UNCHANGED <<lcfg, ii, lexc, acc, pool, fl, passes>>
  /\ UNCHANGED notLoop

\* a spatial pass at every iteration, whatever --spatialiter says
SpatialPassDueAlways(k, spatialiter) == TRUE

\* if (ii==0) or (spatialiter=='yes')
SpatialPassDue(k, spatialiter) == k = 0 \/ spatialiter = "yes"

\* top of the for loop and the test of the spatial pass
IterTop ==
  /\ lpc = "iter_top"
  /\ IF ii < lcfg.niter
     THEN IF SpatialPassDue(ii, lcfg.spatialiter)
          THEN /\ lpc' = "spatial_map"
               /\ pool' = [kind |-> "spatial", pending |-> Epochs, results |-> Vec(0, 0)]
          ELSE /\ lpc' = "save_rms"
               /\ pool' = pool
     ELSE /\ lpc' = "done"
          /\ pool' = pool
  /\ UNCHANGED <<lcfg, ii, lexc, rms, inaps, acc, fl, store, floorLog, passes>>
  /\ UNCHANGED notLoop

\* estim_ramp rebuilds the full design matrix with 'for i in range(nlines)'
\* (l.1275-1276) on a G of (iend-ibeg)*(jend-jbeg) rows: with a --crop of fewer
\* lines the slice runs past the end of G and the assignment raises ValueError
EpochTaskRaises(c) == c.crop = "lines"

\* consInvert reads pos[i] for every coseismic step when ineq is 'yes'
PixelTaskRaises(c) ==
  c.ineq = "yes" /\ PosIndexError([ncos |-> c.ncos, pos |-> Vec(0, 0)])

\* one task of pool.map(empirical_cor, work): the reference epoch comes back
\* with the sentinel 1, any other epoch with its residual rms unless the
\* estimation raises
SpatialTask(l) ==
  /\ lpc = "spatial_map"
  /\ l \in pool.pending
  /\ \E r \in (IF l = imref THEN {1} ELSE RmsValues) :
       LET out == IF l # imref /\ EpochTaskRaises(lcfg)
                  THEN [raised |-> "ValueError", rms |-> NaN, iter |-> ii]
                  ELSE [raised |-> "none", rms |-> r, iter |-> ii]
       IN  pool' = [ kind |-> "spatial",
                     pending |-> pool.pending \ {l},
                     results |-> [k \in DOMAIN pool.results \cup {l} |->
                                    IF k = l THEN out ELSE pool.results[k]] ]
  /\ UNCHANGED <<lcfg, ii, lpc, lexc, rms, inaps, acc, fl, store, floorLog, passes>>
  /\ UNCHANGED notLoop

\* mutant: a failed task is not reported by the map
MapFailsNever(results) == FALSE

\* pool.map re-raises the exception of a task that raised
MapFails(results) == \E k \in DOMAIN results : results[k].raised # "none"

\* pool.map returns when every task has returned
SpatialMapReturn ==
  /\ lpc = "spatial_map"
  /\ pool.pending = {}
  /\ ~ MapFails(pool.results)
  /\ lpc' = "spatial_fetch"
  /\ fl' = 0
  /\ UNCHANGED <<lcfg, ii, lexc, rms, inaps, acc, pool, store, floorLog, passes>>
  /\ UNCHANGED notLoop

\* maps_ramp[:,:,l], maps_flata[:,:,l], maps_topo[:,:,l], rms[l],
\* maps_noramps[:,:,l] = output[0][l]: the targets are assigned from left to
\* right, and rms[l] raises NameError once rms has been deleted
SpatialFetch ==
  /\ lpc = "spatial_fetch"
  /\ IF fl < LN
     THEN IF rms.defined
          THEN /\ store' = [store EXCEPT !.ramp[fl] = ii, !.flata[fl] = ii,
                                         !.topo[fl] = ii, !.rms[fl] = ii,
                                         !.noramps[fl] = ii]
               /\ rms' = [rms EXCEPT !.v[fl] = pool.results[fl].rms]
               /\ fl' = fl + 1
               /\ UNCHANGED <<lpc, lexc, passes>>
          ELSE /\ store' = [store EXCEPT !.ramp[fl] = ii, !.flata[fl] = ii,
                                         !.topo[fl] = ii]
               /\ lexc' = "NameError"
               /\ lpc' = "crashed"
               /\ UNCHANGED <<rms, fl, passes>>
     ELSE /\ lpc' = "save_rms"
          /\ passes' = Append(passes, <<"spatial", ii>>)
          /\ UNCHANGED <<store, rms, fl, lexc>>
  /\ UNCHANGED <<lcfg, ii, inaps, acc, pool, floorLog>>
  /\ UNCHANGED notLoop

\* inaps/np.nanmax(inaps)
ScaleByMax(v) ==
  LET mx == CHOOSE x \in {v[l] : l \in DOMAIN v} : \A l \in DOMAIN v : v[l] <= x
  IN  [l \in DOMAIN v |-> Norm(Frac(v[l], mx))]

\* save rms (l.3477-3490), then the start of the temporal pass (l.3504-3520)
SaveRms ==
  /\ lpc = "save_rms"
  /\ IF lcfg.apsf = "no" /\ ii = 0
     THEN LET pre == ScaleByMax(rms.v)
          IN  /\ inaps' = FloorWeights(pre)
              /\ floorLog' = [site |-> "rms", pre |-> pre, post |-> FloorWeights(pre)]
              /\ rms' = [defined |-> FALSE, v |-> Vec(0, 0)]
     ELSE UNCHANGED <<inaps, floorLog, rms>>
  /\ acc' = [aps |-> [l \in Epochs |-> 1], n_aps |-> [l \in Epochs |-> 1]]
  /\ pool' = [kind |-> "temporal", pending |-> 0..(WorkLen(lcfg.sampling) - 1),
              results |-> Vec(0, 0)]
  /\ lpc' = "temporal_map"
  /\ UNCHANGED <<lcfg, ii, lexc, fl, store, passes>>
  /\ UNCHANGED notLoop

\* one task of pool.map(temporal_decomp, work): entry t of the result list is
\* the result of pixel t*sampling. The task reads inaps and maps_flata; a
\* pixel that is fitted calls consInvert, whose exception leaves the task
TemporalTask(t) ==
  /\ lpc = "temporal_map"
  /\ t \in pool.pending
  /\ \E r \in PixelResults :
       LET fitted == \E l \in Epochs : r.naps[l] = 1
           out == IF fitted /\ PixelTaskRaises(lcfg)
                  THEN [raised |-> "IndexError", pixel |-> t * lcfg.sampling, iter |-> ii,
                        aps |-> Vec(0, 0), naps |-> Vec(0, 0),
                        w |-> inaps, stack |-> store.flata]
                  ELSE [raised |-> "none", pixel |-> t * lcfg.sampling, iter |-> ii,
                        aps |-> r.aps, naps |-> r.naps,
                        w |-> inaps, stack |-> store.flata]
       IN  pool' = [ kind |-> "temporal",
                     pending |-> pool.pending \ {t},
                     results |-> [k \in DOMAIN pool.results \cup {t} |->
                                    IF k = t THEN out ELSE pool.results[k]] ]
  /\ UNCHANGED <<lcfg, ii, lpc, lexc, rms, inaps, acc, fl, store, floorLog, passes>>
  /\ UNCHANGED notLoop

\* mutant: the controller goes on without waiting for the tasks
TemporalMapReturnEarly ==
  /\ lpc = "temporal_map"
  /\ lpc' = "temporal_fetch"
  /\ fl' = 0
  /\ UNCHANGED <<lcfg, ii, lexc, rms, inaps, acc, pool, store, floorLog, passes>>
  /\ UNCHANGED notLoop

\* pool.map returns when every task has returned
TemporalMapReturn ==
  /\ lpc = "temporal_map"
  /\ pool.pending = {}
  /\ ~ MapFails(pool.results)
  /\ lpc' = "temporal_fetch"
  /\ fl' = 0
  /\ UNCHANGED <<lcfg, ii, lexc, rms, inaps, acc, pool, store, floorLog, passes>>
  /\ UNCHANGED notLoop

\* pool.map raises in the controller, once all tasks are done, the exception
\* of a task that raised; nothing catches it
PoolMapRaises ==
  /\ lpc \in {"spatial_map", "temporal_map"}
  /\ pool.pending = {}
  /\ MapFails(pool.results)
  /\ lexc' = pool.results[CHOOSE k \in DOMAIN pool.results :
                            pool.results[k].raised # "none"].raised
  /\ lpc' = "crashed"
  /\ UNCHANGED <<lcfg, ii, rms, inaps, acc, pool, fl, store, floorLog, passes>>
  /\ UNCHANGED notLoop

\* for pix in range(0, P, sampling): ... = output[0][pix]; fl counts the turns
TemporalFetch ==
  /\ lpc = "temporal_fetch"
  /\ LET pix == fl * lcfg.sampling
     IN  IF pix < LPix
         THEN IF pix \in DOMAIN pool.results
              THEN LET r == pool.results[pix]
                   IN  /\ acc' = [ aps |-> [l \in Epochs |-> acc.aps[l] + r.aps[l]],
                                   n_aps |-> [l \in Epochs |-> acc.n_aps[l] + r.naps[l]] ]
                       /\ store' = [store EXCEPT !.coef[pix] = [pixel |-> r.pixel, iter |-> ii]]
                       /\ fl' = fl + 1
                       /\ UNCHANGED <<lpc, lexc>>
              ELSE /\ lexc' = "IndexError"
                   /\ lpc' = "crashed"
                   /\ UNCHANGED <<acc, store, fl>>
         ELSE /\ lpc' = "aps_update"
              /\ UNCHANGED <<acc, store, fl, lexc>>
  /\ UNCHANGED <<lcfg, ii, rms, inaps, pool, floorLog, passes>>
  /\ UNCHANGED notLoop

\* mutant: the sums are not divided by the counts
ApsUpdateNoDivision ==
  /\ lpc = "aps_update"
  /\ LET pre == [l \in Epochs |-> Norm(Frac(acc.aps[l], 1))]
     IN  /\ inaps' = FloorWeights(pre)
         /\ floorLog' = [site |-> "misfit", pre |-> pre, post |-> FloorWeights(pre)]
  /\ passes' = Append(passes, <<"temporal", ii>>)
  /\ ii' = ii + 1
  /\ lpc' = "iter_top"
  /\ UNCHANGED <<lcfg, lexc, rms, acc, pool, fl, store>>
  /\ UNCHANGED notLoop

\* aps = aps/n_aps, the flooring, inaps = np.copy(aps) (l.3545-3561)
ApsUpdate ==
  /\ lpc = "aps_update"
  /\ LET pre == [l \in Epochs |-> Norm(Frac(acc.aps[l], acc.n_aps[l]))]
     IN  /\ inaps' = FloorWeights(pre)
         /\ floorLog' = [site |-> "misfit", pre |-> pre, post |-> FloorWeights(pre)]
  /\ passes' = Append(passes, <<"temporal", ii>>)
  /\ ii' = ii + 1
  /\ lpc' = "iter_top"
  /\ UNCHANGED <<lcfg, lexc, rms, acc, pool, fl, store>>
  /\ UNCHANGED notLoop

Init ==
  /\ SolverIdle /\ SvdIdle /\ TemporalIdle /\ SpatialIdle /\ OrderIdle
  /\ AmpIdle
  /\ BasisIdle
  /\ BinIdle
  /\ RampIdle
  /\ \E a \in [ niter : 1..MaxIter, spatialiter : {"yes", "no"},
                 apsf : {"no", "file"}, sampling : {1, 2}, crop : {"full", "lines"} ] :
       \E e \in LoopEventArgs :
         lcfg = [ niter |-> a.niter, spatialiter |-> a.spatialiter, apsf |-> a.apsf,
                  sampling |-> a.sampling, crop |-> a.crop,
                  ncos |-> e.ncos, ineq |-> e.ineq ]
  /\ ii = 0
  /\ lpc = "setup"
  /\ lexc = "none"
  /\ rms = [defined |-> FALSE, v |-> Vec(0, 0)]
  /\ inaps = Vec(0, 0)
  /\ acc = [aps |-> Vec(0, 0), n_aps |-> Vec(0, 0)]
  /\ pool = [kind |-> "none", pending |-> {}, results |-> Vec(0, 0)]
  /\ fl = 0
  /\ store = Vec(0, 0)
  /\ floorLog = [site |-> "none", pre |-> Vec(0, 0), post |-> Vec(0, 0)]
  /\ passes = << >>

Next ==
  \/ Setup
  \/ IterTop
  \/ \E l \in Epochs : SpatialTask(l)
  \/ SpatialMapReturn
  \/ SpatialFetch
  \/ SaveRms
  \/ \E t \in 0..(LPix-1) : TemporalTask(t)
  \/ TemporalMapReturn
  \/ PoolMapRaises
  \/ TemporalFetch
  \/ ApsUpdate

Spec == Init /\ [][Next]_vars

-----------------------------------------------------------------------------
(* Claims on the outer iteration *)

\* C9: at each flooring site (weights of the --aps file, rms weights of
\* iteration 0, misfit weights at the end of an iteration) every weight after
\* the flooring is at least the 2nd percentile of the weights before it, every
\* weight that was already at or above that value is unchanged, and the
\* floored weights are the ones the next temporal pass uses.
C9_WeightsFloored ==
  floorLog.site # "none" =>
    LET p == Percentile2(floorLog.pre)
    IN  /\ inaps = floorLog.post
        /\ DOMAIN floorLog.post = DOMAIN floorLog.pre
        /\ \A l \in DOMAIN floorLog.pre :
             /\ ~ FLess(floorLog.post[l], p)
             /\ ~ FLess(floorLog.pre[l], p) => floorLog.post[l] = floorLog.pre[l]

\* a flooring at the end of an iteration that raised one weight and kept another
C9_Witness ==
  /\ floorLog.site = "misfit"
  /\ ii >= 1
  /\ \E l \in DOMAIN floorLog.pre :
       /\ FLess(floorLog.pre[l], Percentile2(floorLog.pre))
       /\ floorLog.post[l] = Percentile2(floorLog.pre)
  /\ \E l \in DOMAIN floorLog.pre :
       /\ ~ FLess(floorLog.pre[l], Percentile2(floorLog.pre))
       /\ floorLog.post[l] = floorLog.pre[l]

SpatialPassRan(k) == \E i \in DOMAIN passes : passes[i] = <<"spatial", k>>

\* C10: the spatial pass runs on iteration 0, on every later iteration when
\* spatialiter is 'yes' and on no later iteration otherwise; every pass that
\* runs completes, having stored ramp, flattened map, topography and rms of
\* every epoch.
C10_SpatialPassCompletes ==
  /\ \A k \in 0..(MaxIter - 1) :
       (k < ii \/ (k = ii /\ lpc \in {"save_rms", "temporal_map",
                                      "temporal_fetch", "aps_update"}))
         => (SpatialPassRan(k) <=> (k = 0 \/ lcfg.spatialiter = "yes"))
  /\ (lpc = "save_rms" /\ SpatialPassRan(ii)) =>
       \A l \in Epochs : /\ store.ramp[l] = ii
                         /\ store.flata[l] = ii
                         /\ store.topo[l] = ii
                         /\ store.rms[l] = ii
  /\ ~ (lpc = "crashed" /\ lexc = "NameError")

TemporalPassesDone == SelectSeq(passes, LAMBDA e : e[1] = "temporal")

\* C11: the outer loop performs exactly niter iterations, each with exactly
\* one temporal pass, in order, none skipped or repeated, and then the run
\* ends; a run never ends with fewer than niter iterations done.
C11_ExactlyNiterIterations ==
  /\ ii <= lcfg.niter
  /\ Len(TemporalPassesDone) = ii
  /\ \A i \in 1..Len(TemporalPassesDone) : TemporalPassesDone[i][2] = i - 1
  /\ lpc \in {"done", "crashed"} => ii = lcfg.niter

TasksStarted == DOMAIN pool.results # {}

\* C12: a pixel task of iteration k runs only after every epoch task of the
\* spatial pass of iteration k has returned and the controller has stored its
\* result, and a task of iteration k+1 runs only after every pixel task of
\* iteration k has returned and the weights have been updated; the controller
\* reads the results only when no task is pending, and all pixel tasks of one
\* temporal pass read the same weight vector and the same flattened stack.
C12_BarrierBetweenPasses ==
  /\ lpc \in {"spatial_fetch", "save_rms", "temporal_fetch", "aps_update"}
       => pool.pending = {}
  /\ (pool.kind = "temporal" /\ TasksStarted) =>
       /\ \A t, u \in DOMAIN pool.results :
            /\ pool.results[t].w = pool.results[u].w
            /\ pool.results[t].stack = pool.results[u].stack
       /\ lpc \in {"temporal_map", "temporal_fetch", "aps_update"} =>
            /\ \A t \in DOMAIN pool.results :
                 /\ pool.results[t].iter = ii
                 /\ pool.results[t].w = inaps
                 /\ pool.results[t].stack = store.flata
            /\ (ii = 0 \/ lcfg.spatialiter = "yes") =>
                 /\ SpatialPassRan(ii)
                 /\ \A l \in Epochs : store.flata[l] = ii /\ store.ramp[l] = ii
            /\ ii > 0 =>
                 /\ Len(TemporalPassesDone) = ii
                 /\ floorLog.site = "misfit"
  /\ (lpc = "spatial_map" /\ TasksStarted /\ ii > 0) =>
       /\ Len(TemporalPassesDone) = ii
       /\ floorLog.site = "misfit"
       /\ inaps = floorLog.post
       /\ \A p \in Work(lcfg.sampling) : store.coef[p].iter = ii - 1

\* pixel tasks of a second iteration have run after a second spatial pass
C12_Witness ==
  /\ pool.kind = "temporal"
  /\ pool.pending = {}
  /\ DOMAIN pool.results = 0..(LPix - 1)
  /\ ii = 1
  /\ lcfg.spatialiter = "yes"
  /\ lpc = "aps_update"

\* C13: if a task of a pass raises, the pass fails as a whole: the controller
\* stores none of the results of that pass in the maps or the accumulators,
\* never reads the result list, and starts no later pass.
C13_FailedPassScattersNothing ==
  (\E k \in DOMAIN pool.results : pool.results[k].raised # "none") =>
    /\ lpc \in {"spatial_map", "temporal_map", "crashed"}
    /\ pool.kind = "spatial" =>
         /\ ~ SpatialPassRan(ii)
         /\ \A l \in Epochs : /\ store.ramp[l] # ii
                              /\ store.flata[l] # ii
                              /\ store.topo[l] # ii
                              /\ store.rms[l] # ii
    /\ pool.kind = "temporal" =>
         /\ Len(TemporalPassesDone) = ii
         /\ \A p \in 0..(LPix - 1) : store.coef[p].iter # ii
         /\ \A l \in Epochs : acc.aps[l] = 1 /\ acc.n_aps[l] = 1
    /\ \A k \in DOMAIN pool.results : pool.results[k].iter = ii

\* a pass in which one task raised and another returned has been abandoned
C13_Witness ==
  /\ lpc = "crashed"
  /\ \E k \in DOMAIN pool.results : pool.results[k].raised # "none"
  /\ \E k \in DOMAIN pool.results : pool.results[k].raised = "none"

-----------------------------------------------------------------------------
(* The reference window of empirical_cor *)

\* --ref=0,SLines,0,SCols
lin_start == 0
lin_end == SLines
col_start == 0
col_end == SCols

\* pix_az > lin_start, pix_az < lin_end, pix_rg > col_start, pix_rg < col_end
RefWindow ==
  {p \in Pix : p[1] > lin_start /\ p[1] < lin_end /\ p[2] > col_start /\ p[2] < col_end}

\* np.nansum(los_ref2*amp_ref) with rmsmap = 1 everywhere (no --rmspixel)
WindowSum(flata) == SumOver(flata, {p \in RefWindow : ~ IsNaN(flata[p])})

\* C16: with a reference window, when empirical_cor returns for an epoch it
\* has estimated, the weighted average of the flattened map over the valid
\* pixels of the window is zero.
C16_WindowReadsZero ==
  (sPc = "returned" /\ sCfg.refwin /\ sCalls # << >>) => WindowSum(sOut.flata) = 0

-----------------------------------------------------------------------------
(* empirical_cor: the order and the elevation mode used for one epoch *)

BlockLines == 10

iend_emp == ELines

\* np.isnan(np.nanmean(maps[lign:lign+10,:,l]))
BlockEmpty(valid, lign) ==
  \A r \in lign..(lign + BlockLines - 1) : r \in DOMAIN valid => ~ valid[r]

\* for lign in range(ibeg_emp,iend_emp,10): itemp = lign while the block is
\* empty, break at the first block that holds data
RECURSIVE ScanItemp(_, _, _)
ScanItemp(valid, lign, itemp) ==
  IF lign >= iend_emp THEN itemp
  ELSE IF BlockEmpty(valid, lign) THEN ScanItemp(valid, lign + BlockLines, lign)
       ELSE itemp

\* iend_emp-itemp < .6*(iend_emp-ibeg_emp)
TooShort(itemp) == 10 * (iend_emp - itemp) < 6 * (iend_emp - ibeg_emp)

ScanBeginning ==
  /\ ePc = "scan"
  /\ eSel' = [itemp |-> ScanItemp(eIn.valid, ibeg_emp, ibeg_emp),
              temp_flat |-> eIn.flat, ivar_temp |-> eIn.ivar, nfit_temp |-> eIn.nfit]
  /\ ePc' = "select"
  /\ UNCHANGED eIn
  /\ UNCHANGED notOrder

\* temp_flat, ivar_temp and nfit_temp handed to estim_ramp
SelectOrder ==
  /\ ePc = "select"
  /\ eSel' = [ itemp |-> eSel.itemp,
               temp_flat |-> IF eIn.flat > 5 /\ TooShort(eSel.itemp) THEN 5 ELSE eIn.flat,
               ivar_temp |-> IF eIn.ivar > 0 /\ TooShort(eSel.itemp) THEN 0 ELSE eIn.ivar,
               nfit_temp |-> IF eIn.ivar > 0 /\ TooShort(eSel.itemp) THEN 0 ELSE eIn.nfit ]
  /\ ePc' = "selected"
  /\ UNCHANGED eIn
  /\ UNCHANGED notOrder

\* an estimated epoch holds data from some line on; the lines before are NaN
EpochLines ==
  { [r \in 0..(ELines - 1) |-> r >= first] : first \in 0..(ELines - 1) }

InitOrder ==
  /\ SolverIdle /\ SvdIdle /\ TemporalIdle /\ SpatialIdle /\ LoopIdle
  /\ AmpIdle
  /\ BasisIdle
  /\ BinIdle
  /\ RampIdle
  /\ eIn \in [ flat : 0..9, ivar : {0, 1}, nfit : {0, 1}, radar : BOOLEAN,
               valid : EpochLines ]
  /\ eSel = Vec(0, 0)
  /\ ePc = "scan"

NextOrder == ScanBeginning \/ SelectOrder

SpecOrder == InitOrder /\ [][NextOrder]_vars

FirstValidLine == CHOOSE r \in DOMAIN eIn.valid :
                    eIn.valid[r] /\ \A q \in DOMAIN eIn.valid : eIn.valid[q] => r <= q

\* C17: for an epoch whose valid data start so late that the window from
\* the first valid line to the end is less than 60% of the height of the
\* estimation window, the fit uses order 5 whenever the configured order is
\* above 5 and no elevation coupling; for every other epoch the configured
\* order and elevation mode are used unchanged.
C17_ShortEpochDemoted ==
  ePc = "selected" =>
    IF 10 * (iend_emp - FirstValidLine) < 6 * (iend_emp - ibeg_emp)
    THEN /\ eIn.flat > 5 => eSel.temp_flat = 5
         /\ eIn.flat <= 5 => eSel.temp_flat = eIn.flat
         /\ ~ eIn.radar
    ELSE /\ eSel.temp_flat = eIn.flat
         /\ eSel.ivar_temp = eIn.ivar
         /\ eSel.nfit_temp = eIn.nfit

-----------------------------------------------------------------------------
(* The weights refreshed at the end of an iteration *)

\* sum over the pixels processed in the pass of |observed - modeled| at epoch l
MisfitSum(l) ==
  SumOver([t \in DOMAIN pool.results |-> pool.results[t].aps[l]], DOMAIN pool.results)

\* number of pixels processed in the pass that are valid at epoch l
ValidCount(l) ==
  SumOver([t \in DOMAIN pool.results |-> pool.results[t].naps[l]], DOMAIN pool.results)

IterationJustEnded ==
  lpc = "iter_top" /\ ii > 0 /\ floorLog.site = "misfit" /\ pool.kind = "temporal"

-----------------------------------------------------------------------------
(* The sample threshold of temporal_decomp *)

\* C19: a pixel with at least N/6 valid samples, exactly N/6 included, is
\* fitted (temporal_decomp calls the solver); only a pixel with strictly
\* fewer than N/6 valid samples is skipped.
C19_AtLeastSixthIsFitted ==
  tPc = "returned" =>
    /\ 6 * Cardinality(ValidEpochs(tDisp)) >= tN => tCalls = <<"consInvert">>
    /\ 6 * Cardinality(ValidEpochs(tDisp)) < tN => tCalls = << >>

-----------------------------------------------------------------------------
(* The ramp and the topography returned by estim_ramp *)

\* C20: for every order and every elevation mode estim_ramp hands back a
\* ramp that is the product of exactly the fitted columns without an
\* elevation factor and a topography that is the product of exactly the
\* columns with one; without an elevation raster every column is a ramp
\* column and the topography is zero.
C20_RampTopoSplit ==
  /\ sPc # "raised"
  /\ (sPc = "returned" /\ sCalls # << >> /\ ~ sCfg.radar) =>
       /\ \A p \in Pix : ~ IsNaN(sOut.flata[p]) => sOut.topo[p] = 0
       /\ \E pars \in RampPars(sCfg.flat) :
            \A p \in Pix : ~ IsNaN(sOut.flata[p]) => sOut.ramp[p] = RampOf(sCfg.flat, pars)[p]

-----------------------------------------------------------------------------
(* empirical_cor(l) and estim_ramp: the pixels selected for the fit and the  *)
(* two design matrices, without the values of the maps                      *)

\* ibeg,iend,jbeg,jend of --crop, inside a stack of RLines x RCols
Crops ==
  { [ibeg |-> i, iend |-> RLines, jbeg |-> j, jend |-> RCols] :
      i \in {0, 1}, j \in {0, 1} }

CropLines(c) == c.iend - c.ibeg
CropCols(c) == c.jend - c.jbeg

\* ibeg_emp,iend_emp,jbeg_emp,jend_emp of --crop_emp; the default is
\* [0,iend-ibeg,0,jend-jbeg]
CropEmps(c) ==
  { [ibeg_emp |-> i, iend_emp |-> e, jbeg_emp |-> j, jend_emp |-> CropCols(c)] :
      i \in {0, 1}, j \in {0, 1}, e \in {CropLines(c) - 1, CropLines(c)} }

\* pix_az, pix_rg = np.indices((iend-ibeg,jend-jbeg)): a pixel is <<az, rg>>
GridPix(c) == (0..(CropLines(c) - 1)) \X (0..(CropCols(c) - 1))

\* the last four tests of the selection: pix_az>ibeg, pix_az<iend,
\* pix_rg>jbeg, pix_rg<jend
InsideTests(c, px) ==
  /\ px[1] > c.ibeg /\ px[1] < c.iend
  /\ px[2] > c.jbeg /\ px[2] < c.jend

\* index = np.nonzero(...): in.screen holds the pixels that pass the tests on
\* the elevation, the mask, the rms, the NaN of the map and the slope
SelectIndex(in) ==
  { px \in GridPix(in.crop) : px \in in.screen /\ InsideTests(in.crop, px) }

Pow(x, n) == IF n = 0 THEN 1
             ELSE IF n = 1 THEN x
             ELSE IF n = 2 THEN x * x
             ELSE x * x * x

\* a column of a design matrix without elevation: rg**t.rg * az**t.az
Mono(t, rg, az) == Pow(rg, t.rg) * Pow(az, t.az)

Term(r, a) == [rg |-> r, az |-> a]

\* the columns of G=np.zeros((len(data),..)) when radar is None, per order
SampleTerms(order) ==
  CASE order = 0 -> << >>
    [] order = 1 -> << Term(1, 0), Term(0, 0) >>
    [] order = 2 -> << Term(0, 1), Term(0, 0) >>
    [] order = 3 -> << Term(1, 0), Term(0, 1), Term(0, 0) >>
    [] order = 4 -> << Term(1, 0), Term(0, 1), Term(1, 1), Term(0, 0) >>
    [] order = 5 -> << Term(2, 0), Term(1, 0), Term(0, 1), Term(0, 0) >>
    [] order = 6 -> << Term(0, 2), Term(0, 1), Term(1, 0), Term(0, 0) >>
    [] order = 7 -> << Term(0, 2), Term(0, 1), Term(2, 0), Term(1, 0), Term(0, 0) >>
    [] order = 8 -> << Term(0, 3), Term(0, 2), Term(0, 1), Term(2, 0), Term(1, 0),
                       Term(0, 0) >>
    [] order = 9 -> << Term(1, 0), Term(0, 1), Term(2, 2), Term(1, 1), Term(0, 0) >>

\* the columns of G=np.zeros((len(los),..)) when radar is None, per order, in
\* np.arange((ncol)) - jbeg_emp and i - ibeg_emp
FullTerms(order) ==
  CASE order = 0 -> << >>
    [] order = 1 -> << Term(1, 0), Term(0, 0) >>
    [] order = 2 -> << Term(0, 1), Term(0, 0) >>
    [] order = 3 -> << Term(1, 0), Term(0, 1), Term(0, 0) >>
    [] order = 4 -> << Term(1, 0), Term(0, 1), Term(1, 1), Term(0, 0) >>
    [] order = 5 -> << Term(2, 0), Term(1, 0), Term(0, 1), Term(0, 0) >>
    [] order = 6 -> << Term(0, 2), Term(0, 1), Term(1, 0), Term(0, 0) >>
    [] order = 7 -> << Term(0, 2), Term(0, 1), Term(2, 0), Term(1, 0), Term(0, 0) >>
    [] order = 8 -> << Term(0, 3), Term(0, 2), Term(0, 1), Term(2, 0), Term(1, 0),
                       Term(0, 0) >>
    [] order = 9 -> << Term(1, 0), Term(0, 1), Term(2, 2), Term(1, 1), Term(0, 0) >>

\* len(los): the rows of the full-grid matrix
FullRows(c) == CropLines(c) * CropCols(c)

\* the length of G[i*ncol:(i+1)*ncol, c] in a matrix of rows lines
SliceLen(i, rows) ==
  IF i * RCols >= rows THEN 0
  ELSE IF (i + 1) * RCols > rows THEN rows - i * RCols
  ELSE RCols

\* for i in range(nlines): G[i*ncol:(i+1)*ncol,c] = <array of ncol values>
\* cannot be broadcast into a slice of another length
FullRaises(in) ==
  /\ RCols # 1
  /\ \E c \in DOMAIN FullTerms(in.order) : FullTerms(in.order)[c].rg > 0
  /\ \E i \in 0..(RLines - 1) : SliceLen(i, FullRows(in.crop)) # RCols

\* row k of the full-grid matrix is written in turn i = k \div ncol of the
\* loop, at place k % ncol of np.arange((ncol))
FullColumn(in, t) ==
  [k \in 0..(FullRows(in.crop) - 1) |->
     Mono(t, (k % RCols) - in.crop_emp.jbeg_emp, (k \div RCols) - in.crop_emp.ibeg_emp)]

\* empirical_cor: selection of the pixels, x = temp[:,0]; y = temp[:,1]
SelectPixels ==
  /\ rPc = "select"
  /\ rSamp' = SelectIndex(rIn)
  /\ rPc' = "bin"
  /\ UNCHANGED <<rIn, rFit, rFull, rExc>>
  /\ UNCHANGED notRamp

\* estim_ramp, up to the choice of the order: with an elevation raster the
\* bins are built from mintopo and maxtopo, which are not names of
\* estim_ramp nor of the module
BinSamples ==
  /\ rPc = "bin"
  /\ IF rIn.radar
     THEN rExc' = "NameError" /\ rPc' = "raised"
     ELSE rExc' = "none" /\ rPc' = "fit"
  /\ UNCHANGED <<rIn, rSamp, rFit, rFull>>
  /\ UNCHANGED notRamp

\* the matrix of the fit, one row per sample: rgbins, azbins = y, x.  With no
\* sample lst.lstsq returns zeros or raises, depending on the library.
FitDesign ==
  /\ rPc = "fit"
  /\ rFit' = [c \in DOMAIN SampleTerms(rIn.order) |->
                [px \in rSamp |-> Mono(SampleTerms(rIn.order)[c], px[2], px[1])]]
  /\ \/ rExc' = "none" /\ rPc' = "full"
     \/ /\ rSamp = {} /\ rIn.order # 0
        /\ rExc' = "ValueError" /\ rPc' = "raised"
  /\ UNCHANGED <<rIn, rSamp, rFull>>
  /\ UNCHANGED notRamp

\* the matrix of the whole grid, one row per pixel of the cropped stack
BuildFull ==
  /\ rPc = "full"
  /\ IF FullRaises(rIn)
     THEN rExc' = "ValueError" /\ rPc' = "raised" /\ UNCHANGED rFull
     ELSE /\ rFull' = [c \in DOMAIN FullTerms(rIn.order) |->
                         FullColumn(rIn, FullTerms(rIn.order)[c])]
          /\ rPc' = "returned"
          /\ UNCHANGED rExc
  /\ UNCHANGED <<rIn, rSamp, rFit>>
  /\ UNCHANGED notRamp

\* all pixels pass the other tests, or all but one, or those of line 0 only
Screens(c) ==
  { GridPix(c), GridPix(c) \ {<<1, 1>>}, {px \in GridPix(c) : px[1] = 0} }

InitRamp ==
  /\ SolverIdle /\ SvdIdle /\ TemporalIdle /\ SpatialIdle /\ OrderIdle /\ LoopIdle
  /\ AmpIdle
  /\ BasisIdle
  /\ BinIdle
  /\ \E c \in Crops : \E ce \in CropEmps(c) : \E sc \in Screens(c) :
     \E o \in 0..9, r \in BOOLEAN, iv \in {0, 1}, nf \in {0, 1} :
       rIn = [order |-> o, radar |-> r, ivar |-> iv, nfit |-> nf,
              crop |-> c, crop_emp |-> ce, screen |-> sc]
  /\ rSamp = {}
  /\ rFit = << >>
  /\ rFull = << >>
  /\ rExc = "none"
  /\ rPc = "select"

NextRamp == SelectPixels \/ BinSamples \/ FitDesign \/ BuildFull

SpecRamp == InitRamp /\ [][NextRamp]_vars

\* the coordinates of row k of the flattened cropped grid, as the samples
\* have them: x = line, y = column of maps[:,:,l]
PixelAz(in, k) == k \div CropCols(in.crop)
PixelRg(in, k) == k % CropCols(in.crop)

\* C21: for every polynomial order 0-9 and every elevation mode, estim_ramp
\* completes, and the full-grid design matrix has the same number of columns
\* as the design matrix of the fit, column c of the former being, at each
\* pixel, the monomial of column c of the latter evaluated at that pixel's own
\* row index, column index and elevation, in the coordinate origin of the fit.
C21_FullGridMatchesFit ==
  (rPc \in {"fit", "full", "returned", "raised"} /\ rSamp # {}) =>
    /\ rPc # "raised"
    /\ rPc = "returned" =>
         /\ Len(rFull) = Len(rFit)
         /\ \A c \in DOMAIN rFull : \A k \in DOMAIN rFull[c] :
              c \in DOMAIN rFit =>
                rFull[c][k] =
                  Mono(SampleTerms(rIn.order)[c], PixelRg(rIn, k), PixelAz(rIn, k))

\* maps_temp[ibeg_emp:iend_emp,jbeg_emp:jend_emp]: the window of --crop_emp
InsideCropEmp(ce, px) ==
  /\ px[1] >= ce.ibeg_emp /\ px[1] < ce.iend_emp
  /\ px[2] >= ce.jbeg_emp /\ px[2] < ce.jend_emp

\* C22: a pixel enters the sample set of the spatial fit only if it lies
\* inside the window of --crop_emp, and every pixel inside that window that
\* passes the other validity criteria does enter it, the pixels of the first
\* line and of the first column of the window included.
C22_SamplesAreCropEmpWindow ==
  rPc # "select" =>
    rSamp = { px \in GridPix(rIn.crop) :
                px \in rIn.screen /\ InsideCropEmp(rIn.crop_emp, px) }

-----------------------------------------------------------------------------
(* estim_ramp: the binning of the samples by elevation *)

MinBinCount == 100

\* the samples counted per elevation interval: interval j holds hist[j] of them
Histograms == [0..(NBins - 1) -> {0, MinBinCount, MinBinCount + 1}]

\* with an elevation raster, bins = np.arange(mintopo,maxtopo,..) reads two
\* names that estim_ramp does not have; without one the samples are used as
\* they are (topobins = topo_clean)
BinElevations ==
  /\ bPc = "call"
  /\ IF bIn.radar
     THEN bOut' = [topobins |-> << >>, exc |-> "NameError"] /\ bPc' = "raised"
     ELSE bOut' = [topobins |-> << >>, exc |-> "none"] /\ bPc' = "binned"
  /\ UNCHANGED bIn
  /\ UNCHANGED notBin

InitBins ==
  /\ SolverIdle /\ SvdIdle /\ TemporalIdle /\ SpatialIdle /\ OrderIdle /\ LoopIdle
  /\ AmpIdle
  /\ BasisIdle
  /\ RampIdle
  /\ bIn \in [radar : BOOLEAN, hist : Histograms]
  /\ bOut = Vec(0, 0)
  /\ bPc = "call"

NextBins == BinElevations

SpecBins == InitBins /\ [][NextBins]_vars

\* C25: when an elevation raster is supplied, a bin contributes a sample to
\* the spatial fit if and only if it holds more than 100 screened pixels, and
\* the elevation recorded for a retained bin is the median elevation of the
\* pixels assigned to it, hence a value inside the interval of that bin
\* (an entry of topobins is [bin, inside]: the interval it stands for and
\* whether the recorded elevation lies in that interval).
C25_BinsAboveHundredRetained ==
  (bPc # "call" /\ bIn.radar) =>
    /\ bPc = "binned"
    /\ \A j \in DOMAIN bIn.hist :
         (bIn.hist[j] > MinBinCount) <=>
           (\E n \in DOMAIN bOut.topobins : bOut.topobins[n].bin = j)
    /\ \A n \in DOMAIN bOut.topobins : bOut.topobins[n].inside

-----------------------------------------------------------------------------
(* The basis functions (setup of the script) and the design matrix of      *)
(* temporal_decomp.  A function is <<kind, i>>; the lists are sequences,   *)
(* entry l of a Python list being element l + 1.  An index that the script *)
(* does not assign is Unset.                                               *)

Unset == -1

\* basis=[reference(...)]; index = len(basis)
BasisStart ==
  [ basis |-> << <<"reference", 0>> >>, kernels |-> << >>, index |-> 1,
    indexinter |-> Unset, indexseas |-> Unset, indexsemi |-> Unset,
    indexco |-> Vec(0, 0), indexpo |-> << >>, indexpofull |-> << >>,
    indexsse |-> Vec(0, 0), indexdem |-> Unset, indexvect |-> Vec(0, 0) ]

\* if inter=='yes'
AddInter(c, s) ==
  IF c.inter = "yes"
  THEN [s EXCEPT !.indexinter = s.index,
                 !.basis = Append(@, <<"interseismic", 0>>),
                 !.index = @ + 1]
  ELSE s

\* mutant: the seasonal pair counted as one function
AddSeasonalOneStep(c, s) ==
  IF c.seasonal = "yes"
  THEN [s EXCEPT !.indexseas = s.index,
                 !.basis = @ \o << <<"coswt", 0>>, <<"sinwt", 0>> >>,
                 !.index = @ + 1]
  ELSE s

\* if seasonal=='yes'
AddSeasonal(c, s) ==
  IF c.seasonal = "yes"
  THEN [s EXCEPT !.indexseas = s.index,
                 !.basis = @ \o << <<"coswt", 0>>, <<"sinwt", 0>> >>,
                 !.index = @ + 2]
  ELSE s

\* if semianual=='yes'
AddSemi(c, s) ==
  IF c.semianual = "yes"
  THEN [s EXCEPT !.indexsemi = s.index,
                 !.basis = @ \o << <<"cosw2t", 0>>, <<"sinw2t", 0>> >>,
                 !.index = @ + 2]
  ELSE s

\* indexco = np.zeros(len(cos)); for i in range(len(cos))
RECURSIVE AddCos(_, _, _)
AddCos(c, s, i) ==
  IF i >= c.ncos THEN s
  ELSE AddCos(c, [s EXCEPT !.basis = Append(@, <<"coseismic", i>>),
                           !.indexco = [@ EXCEPT ![i] = s.index],
                           !.index = @ + 1], i + 1)

\* for i in range(len(pos)): if pos[i] > 0. ... else indexpofull.append(0)
RECURSIVE AddPos(_, _, _)
AddPos(c, s, i) ==
  IF i >= VLen(c.pos) THEN s
  ELSE IF c.pos[i] > 0
       THEN AddPos(c, [s EXCEPT !.basis = Append(@, <<"postseismic", i>>),
                                !.indexpo = Append(@, s.index),
                                !.indexpofull = Append(@, s.index),
                                !.index = @ + 1], i + 1)
       ELSE AddPos(c, [s EXCEPT !.indexpofull = Append(@, 0)], i + 1)

\* indexsse = np.zeros(len(sse_time)); for i in range(len(sse_time))
RECURSIVE AddSse(_, _, _)
AddSse(c, s, i) ==
  IF i >= c.nsse THEN s
  ELSE AddSse(c, [s EXCEPT !.basis = Append(@, <<"slowslip", i>>),
                           !.indexsse = [@ EXCEPT ![i] = s.index],
                           !.index = @ + 1], i + 1)

\* if dem=='yes'
AddDem(c, s) ==
  IF c.dem = "yes"
  THEN [s EXCEPT !.kernels = Append(@, <<"corrdem", 0>>),
                 !.indexdem = s.index,
                 !.index = @ + 1]
  ELSE s

\* ax = fig.add_subplot(i+1,1,len(vectf)) asks for place len(vectf) of a
\* grid of i+1 places: with two files or more the first turn raises
VectorPlotRaises(c) == \E i \in 0..(c.nvect - 1) : c.nvect > (i + 1) * 1

\* if arguments["--vector"] != None: for i in range(len(vectf))
RECURSIVE AddVect(_, _, _)
AddVect(c, s, i) ==
  IF i >= c.nvect THEN s
  ELSE AddVect(c, [s EXCEPT !.kernels = Append(@, <<"vector", i>>),
                            !.indexvect = [@ EXCEPT ![i] = s.index],
                            !.index = @ + 1], i + 1)

\* the lists and the indices at the end of the setup; Mbasis=len(basis),
\* Mker=len(kernels), M = Mbasis + Mker
BuiltBasis(c) ==
  LET s0 == [BasisStart EXCEPT !.indexco = Vec(c.ncos, 0),
                               !.indexsse = Vec(c.nsse, 0),
                               !.indexvect = Vec(c.nvect, 0)]
      s1 == AddSemi(c, AddSeasonal(c, AddInter(c, s0)))
      s2 == AddSse(c, AddPos(c, AddCos(c, s1, 0), 0), 0)
      s3 == AddVect(c, AddDem(c, s2), 0)
  IN  [ basis |-> s3.basis, kernels |-> s3.kernels,
        indexinter |-> s3.indexinter, indexseas |-> s3.indexseas,
        indexsemi |-> s3.indexsemi, indexco |-> s3.indexco,
        indexpo |-> s3.indexpo, indexpofull |-> s3.indexpofull,
        indexsse |-> s3.indexsse, indexdem |-> s3.indexdem,
        indexvect |-> s3.indexvect,
        Mbasis |-> Len(s3.basis), Mker |-> Len(s3.kernels),
        M |-> Len(s3.basis) + Len(s3.kernels) ]

\* the setup of the basis functions
BuildFunctions ==
  /\ kPc = "setup"
  /\ IF VectorPlotRaises(kIn)
     THEN kOut' = Vec(0, 0) /\ kPc' = "raised"
     ELSE kOut' = BuiltBasis(kIn) /\ kPc' = "built"
  /\ UNCHANGED <<kIn, kG>>
  /\ UNCHANGED notBasis

\* G=np.zeros((kk,M)); G[:,l]=basis[l].g(tabx); G[:,Mbasis+l]=kernels[l].g(k)
DesignColumns(o) ==
  [ col \in 0..(o.M - 1) |->
      IF \E l \in 0..(o.Mker - 1) : o.Mbasis + l = col
      THEN o.kernels[col - o.Mbasis + 1]
      ELSE IF col < o.Mbasis THEN o.basis[col + 1]
      ELSE <<"zero", 0>> ]

\* temporal_decomp: the matrix and the columns read for mlin, mseas, mvect
DecomposeColumns ==
  /\ kPc = "built"
  /\ kG' = [ cols |-> DesignColumns(kOut),
             lin  |-> IF kIn.inter = "yes" THEN {kOut.indexinter} ELSE {},
             seas |-> IF kIn.seasonal = "yes"
                      THEN kOut.indexseas..(kOut.indexseas + 1) ELSE {},
             vect |-> IF kIn.nvect > 0
                      THEN {kOut.indexvect[i] : i \in DOMAIN kOut.indexvect}
                      ELSE {},
             minit |-> Vec(0, 0) ]
  /\ kPc' = "decomposed"
  /\ UNCHANGED <<kIn, kOut>>
  /\ UNCHANGED notBasis

\* entry l of a Python list, as a vector
ZeroBased(seq) == [z \in 0..(Len(seq) - 1) |-> seq[z + 1]]

\* the 0 that np.insert puts in
ZeroEntry == <<"zero", 0>>

\* mutant: the zeros are put at the end of the vector
InsertPlaceAtEnd(mtemp, indexpo, z) == VLen(mtemp)

\* the place given to np.insert in turn z
InsertPlace(mtemp, indexpo, z) == indexpo[z]

RECURSIVE RebuildInit(_, _, _)
\* for z in range(len(indexpo)): mtemp = np.insert(mtemp,indexpo[z],0)
RebuildInit(mtemp, indexpo, z) ==
  IF z = VLen(indexpo) THEN mtemp
  ELSE RebuildInit(NpInsert(mtemp, InsertPlace(mtemp, indexpo, z), ZeroEntry),
                   indexpo, z + 1)

\* consInvert called by temporal_decomp with ineq on: Ain =
\* np.delete(A,indexpo,1), mtemp = invSVD(Ain,b,cond), an estimate per column
\* of Ain that is named here after the function of that column, and the
\* rebuilt vector minit
PriorVector ==
  /\ kPc = "decomposed"
  /\ kIn.ineq = "yes"
  /\ LET indexpo == ZeroBased(kOut.indexpo)
         mtemp   == NpDelete(kG.cols, indexpo)
     IN  kG' = [kG EXCEPT !.minit = RebuildInit(mtemp, indexpo, 0)]
  /\ kPc' = "prior"
  /\ UNCHANGED <<kIn, kOut>>
  /\ UNCHANGED notBasis

BasisArguments ==
  { c \in [ inter : {"yes", "no"}, seasonal : {"yes", "no"},
            semianual : {"yes", "no"}, ncos : 0..MaxCos,
            pos : UNION { [0..(n-1) -> PosValues] : n \in 0..MaxCos },
            nsse : 0..MaxSse, dem : {"yes", "no"}, nvect : 0..MaxVect,
            ineq : {"yes", "no"} ] :
      SetupAccepts(c) }

InitBasis ==
  /\ SolverIdle /\ SvdIdle /\ TemporalIdle /\ SpatialIdle /\ OrderIdle /\ LoopIdle
  /\ AmpIdle
  /\ RampIdle /\ BinIdle
  /\ kIn \in BasisArguments
  /\ kOut = Vec(0, 0)
  /\ kG = Vec(0, 0)
  /\ kPc = "setup"

NextBasis == BuildFunctions \/ DecomposeColumns \/ PriorVector

SpecBasis == InitBasis /\ [][NextBasis]_vars

\* the columns of G that hold a function of the given kind
ColumnsOf(kind) == {col \in DOMAIN kG.cols : kG.cols[col][1] = kind}

\* the z-th enabled entry of the postseismic list
EnabledPos(z) ==
  CHOOSE i \in DOMAIN kIn.pos : kIn.pos[i] > 0 /\ NEnabled(kIn.pos, i) = z

\* C23: for every basis configuration, each recorded index (indexinter,
\* indexseas, indexsemi, indexco[i], indexpo[i], indexsse[i], indexdem,
\* indexvect[i]) equals the column at which that function is placed in the
\* design matrix built by temporal_decomp, M equals the number of columns,
\* and the linear, seasonal and vector components are computed from exactly
\* those columns.
C23_IndicesAreColumns ==
  kPc \in {"decomposed", "prior"} =>
    /\ DOMAIN kG.cols = 0..(kOut.M - 1)
    /\ \A col \in DOMAIN kG.cols : kG.cols[col][1] # "zero"
    /\ kG.cols[0] = <<"reference", 0>>
    /\ kIn.inter = "yes" => kG.cols[kOut.indexinter] = <<"interseismic", 0>>
    /\ kIn.seasonal = "yes" =>
         /\ kG.cols[kOut.indexseas] = <<"coswt", 0>>
         /\ kG.cols[kOut.indexseas + 1] = <<"sinwt", 0>>
    /\ kIn.semianual = "yes" =>
         /\ kG.cols[kOut.indexsemi] = <<"cosw2t", 0>>
         /\ kG.cols[kOut.indexsemi + 1] = <<"sinw2t", 0>>
    /\ DOMAIN kOut.indexco = 0..(kIn.ncos - 1)
    /\ \A i \in DOMAIN kOut.indexco : kG.cols[kOut.indexco[i]] = <<"coseismic", i>>
    /\ Len(kOut.indexpo) = NEnabled(kIn.pos, VLen(kIn.pos))
    /\ \A z \in DOMAIN kOut.indexpo :
         kG.cols[kOut.indexpo[z]] = <<"postseismic", EnabledPos(z - 1)>>
    /\ \A i \in DOMAIN kIn.pos :
         IF kIn.pos[i] > 0
         THEN kG.cols[kOut.indexpofull[i + 1]] = <<"postseismic", i>>
         ELSE kOut.indexpofull[i + 1] = 0
    /\ \A i \in DOMAIN kOut.indexsse : kG.cols[kOut.indexsse[i]] = <<"slowslip", i>>
    /\ kIn.dem = "yes" => kG.cols[kOut.indexdem] = <<"corrdem", 0>>
    /\ DOMAIN kOut.indexvect = 0..(kIn.nvect - 1)
    /\ \A i \in DOMAIN kOut.indexvect : kG.cols[kOut.indexvect[i]] = <<"vector", i>>
    /\ kG.lin = ColumnsOf("interseismic")
    /\ kG.seas = ColumnsOf("coswt") \cup ColumnsOf("sinwt")
    /\ kG.vect = ColumnsOf("vector")

\* a decomposition with every group present: seasonal and semiannual pairs,
\* two steps of which one has a transient, a slow slip, the DEM term and a
\* vector file
C23_Witness ==
  /\ kPc = "decomposed"
  /\ kIn.ineq = "no"
  /\ kIn.inter = "yes" /\ kIn.seasonal = "yes" /\ kIn.semianual = "yes"
  /\ kIn.ncos = 2 /\ VLen(kIn.pos) = 2 /\ kIn.pos[0] <= 0 /\ kIn.pos[1] > 0
  /\ kIn.nsse = 1 /\ kIn.dem = "yes" /\ kIn.nvect = 1
  /\ kOut.indexvect[0] = kOut.M - 1
  /\ kOut.M = 12

\* the columns of the postseismic functions
PosColumns == ColumnsOf("postseismic")

\* C24: with ineq on, for any number and position of enabled postseismic
\* columns, the initial vector handed to the bounded refinement has length M,
\* holds 0 at exactly the postseismic column indices and holds the entries
\* of the prior (transient-free) solution, in their original relative order,
\* at all other indices, so that the coseismic entry read for the bounds is
\* the prior estimate of that same coseismic column.
C24_InitialVectorRebuilt ==
  kPc = "prior" =>
    /\ DOMAIN kG.minit = 0..(kOut.M - 1)
    /\ \A col \in DOMAIN kG.minit :
         IF col \in PosColumns
         THEN kG.minit[col] = <<"zero", 0>>
         ELSE kG.minit[col] = kG.cols[col]
    /\ \A i \in DOMAIN kOut.indexco :
         kG.minit[kOut.indexco[i]] = <<"coseismic", i>>

\* an initial vector rebuilt with a transient column that other columns
\* follow, and a disabled transient before it
C24_Witness ==
  /\ kPc = "prior"
  /\ kIn.ncos = 2 /\ VLen(kIn.pos) = 2 /\ kIn.pos[0] <= 0 /\ kIn.pos[1] > 0
  /\ kIn.nsse = 1 /\ kIn.dem = "yes"
  /\ \E col \in PosColumns : col + 2 \in DOMAIN kG.minit

-----------------------------------------------------------------------------
(* The fetch of the temporal pass and the contribution of a pixel *)

\* the temporal pass of the running iteration has fetched pixel pix
Fetched(pix) == store.coef[pix].iter # -1

\* C26: for every sampling factor >= 1, each pixel index of the subsampled
\* work list is fetched exactly once and what is stored at the place of a
\* pixel is what the task that processed that same pixel returned; no fetch
\* reads past the end of the result list.
C26_FetchedFromOwnTask ==
  lpc # "setup" =>
    /\ \A pix \in 0..(LPix - 1) :
         Fetched(pix) => (pix \in Work(lcfg.sampling) /\ store.coef[pix].pixel = pix)
    /\ lpc = "aps_update" =>
         \A pix \in Work(lcfg.sampling) : store.coef[pix].iter = ii
    /\ ~ ( /\ lpc = "crashed" /\ lexc = "IndexError"
           /\ pool.kind = "temporal" /\ pool.pending = {}
           /\ \A k \in DOMAIN pool.results : pool.results[k].raised = "none" )

\* C27: a pixel that temporal_decomp skips for insufficient data adds 0 to
\* every epoch's misfit sum and 0 to every epoch's count of valid pixels, and
\* a fitted pixel adds to the sum and to the count of exactly the epochs at
\* which it is valid (its misfit and 1), so that the refreshed weight of an
\* epoch depends only on the pixels fitted and valid at that epoch.
C27_OnlyFittedValidEpochsCount ==
  tPc = "returned" =>
    LET valid(l) == ~ IsNaN(tDisp[l])
        fitted == tCalls # << >>
    IN  /\ DOMAIN tOut.aps_tmp = 0..(tN - 1)
        /\ DOMAIN tOut.naps_tmp = 0..(tN - 1)
        /\ \A l \in 0..(tN - 1) :
             IF fitted /\ valid(l)
             THEN /\ tOut.naps_tmp[l] = 1
                  /\ tOut.aps_tmp[l] = Abs(tDisp[l] - tOut.mdisp[l])
             ELSE /\ tOut.naps_tmp[l] = 0
                  /\ tOut.aps_tmp[l] = 0

\* a fitted pixel with an epoch without data and a misfit at another, and
\* a skipped pixel that holds data
C27_Witness ==
  /\ tPc = "returned"
  /\ \/ /\ tCalls # << >>
        /\ \E l \in 0..(tN - 1) : IsNaN(tDisp[l])
        /\ \E l \in 0..(tN - 1) : tOut.aps_tmp[l] > 0
     \/ /\ tCalls = << >>
        /\ \E l \in 0..(tN - 1) : ~ IsNaN(tDisp[l])
        /\ tN = TMaxN

-----------------------------------------------------------------------------
(* The outputs of the spatial pass across the iterations *)

\* C28: with --spatialiter=no, no step of an iteration after iteration 0
\* changes the flattened stack, the ramp maps, the topography maps or the
\* ramp-only-flattened maps that iteration 0 produced; the later iterations
\* change the temporal model, the coefficient maps and the weights only.
C28_SpatialOutputsFrozen ==
  [][ (lcfg.spatialiter = "no" /\ ii >= 1) =>
        /\ store'.flata = store.flata
        /\ store'.ramp = store.ramp
        /\ store'.topo = store.topo
        /\ store'.noramps = store.noramps ]_vars

\* a run without spatial re-estimation that has finished its second
\* iteration: the spatial outputs are those of iteration 0, the coefficient
\* maps those of iteration 1
C28_Witness ==
  /\ lpc = "done" /\ lcfg.spatialiter = "no" /\ ii = 2
  /\ \A l \in Epochs : store.flata[l] = 0 /\ store.ramp[l] = 0
  /\ \E pix \in 0..(LPix - 1) : store.coef[pix].iter = 1

-----------------------------------------------------------------------------
(* The epochs that empirical_cor leaves without estimation *)

\* C29: empirical_cor leaves an epoch without estimation only if every
\* valid pixel of the map of that epoch is zero; an epoch that holds a
\* non-zero value is estimated, whatever the sum of its values.
C29_OnlyZeroEpochsSkipped ==
  (sPc \in {"mask", "returned"} /\ sCalls = << >>) =>
    \A p \in DOMAIN sMap : IsNaN(sMap[p]) \/ sMap[p] = 0

-----------------------------------------------------------------------------
(* The amplitude and the phase of the seasonal and semiannual pairs.  The
   square root and the arc tangent are kept symbolic: an amplitude is held by
   its square, a phase by the pair (sine, cosine) given to arctan2, and the
   quotient of the phase uncertainty by its numerator and denominator.  The
   section is reached by the runs without --geotiff only: with a GeoTIFF the
   save of the coefficient maps stops at ds.plt.setprojection before it. *)

\* values of a coefficient map and of an uncertainty map at one pixel
CoefValues  == {-1, 2}
SigmaValues == {1, 2}

\* amp = np.sqrt(cosine**2+sine**2); phi = np.arctan2(sine,cosine);
\* sigamp = np.sqrt(sigcosine**2+sigsine**2);
\* sigphi = (sigcosine*abs(sine)+sigsine*abs(cosine))/(sigcosine**2+sigsine**2)
AmpPhase(cosine, sine, sigcosine, sigsine) ==
  [ amp2    |-> cosine * cosine + sine * sine,
    phi     |-> <<sine, cosine>>,
    sigamp2 |-> sigcosine * sigcosine + sigsine * sigsine,
    sigphi  |-> << sigcosine * Abs(sine) + sigsine * Abs(cosine),
                   sigcosine * sigcosine + sigsine * sigsine >> ]

\* the indices recorded by the setup of the basis functions
AmpIndex == BuiltBasis(aIn.c)

\* if seasonal == 'yes': the pair at indexseas, indexseas+1
SeasonalAmplitude ==
  /\ aPc = "seasonal"
  /\ aOut' = IF aIn.c.seasonal = "yes"
             THEN [ aOut EXCEPT !.seas =
                      AmpPhase(aIn.m[AmpIndex.indexseas], aIn.m[AmpIndex.indexseas + 1],
                               aIn.sigmam[AmpIndex.indexseas],
                               aIn.sigmam[AmpIndex.indexseas + 1]) ]
             ELSE aOut
  /\ aPc' = "semianual"
  /\ UNCHANGED <<aIn, aExc>>
  /\ UNCHANGED notAmp

\* if semianual == 'yes': the coefficients at indexsemi, indexsemi+1, the
\* uncertainties at indexseas, indexseas+1; indexseas is a name of the module
\* only when seasonal == 'yes'
SemiannualAmplitude ==
  /\ aPc = "semianual"
  /\ IF aIn.c.semianual = "yes"
     THEN IF AmpIndex.indexseas = Unset
          THEN /\ aExc' = "NameError"
               /\ aPc' = "raised"
               /\ aOut' = aOut
          ELSE /\ aOut' = [ aOut EXCEPT !.semi =
                      AmpPhase(aIn.m[AmpIndex.indexsemi], aIn.m[AmpIndex.indexsemi + 1],
                               aIn.sigmam[AmpIndex.indexseas],
                               aIn.sigmam[AmpIndex.indexseas + 1]) ]
               /\ aPc' = "done"
               /\ aExc' = aExc
     ELSE /\ aPc' = "done"
          /\ UNCHANGED <<aOut, aExc>>
  /\ UNCHANGED aIn
  /\ UNCHANGED notAmp

\* the configurations with the reference, the linear and the periodic terms
AmpArguments ==
  { c \in BasisArguments :
      /\ c.ncos = 0 /\ c.pos = Vec(0, 0) /\ c.nsse = 0
      /\ c.dem = "no" /\ c.nvect = 0 /\ c.ineq = "no" }

InitAmp ==
  /\ SolverIdle /\ SvdIdle /\ TemporalIdle /\ SpatialIdle /\ OrderIdle /\ LoopIdle
  /\ RampIdle /\ BinIdle /\ BasisIdle
  /\ \E c \in AmpArguments :
       \E m \in [0..(BuiltBasis(c).M - 1) -> CoefValues] :
         \E sg \in [0..(BuiltBasis(c).M - 1) -> SigmaValues] :
           aIn = [c |-> c, m |-> m, sigmam |-> sg]
  /\ aOut = [seas |-> Vec(0, 0), semi |-> Vec(0, 0)]
  /\ aExc = "none"
  /\ aPc = "seasonal"

NextAmp == SeasonalAmplitude \/ SemiannualAmplitude

SpecAmp == InitAmp /\ [][NextAmp]_vars

\* C30: when the semiannual terms are active, the uncertainties of the
\* semiannual amplitude and phase are computed from the uncertainties of the
\* semiannual cosine and sine coefficients, not from those of the seasonal
\* pair, and the computation ends without an exception whether or not the
\* seasonal terms are active.
C30_SemiannualUncertainties ==
  (aPc \in {"done", "raised"} /\ aIn.c.semianual = "yes") =>
    LET sigcosine == aIn.sigmam[AmpIndex.indexsemi]
        sigsine   == aIn.sigmam[AmpIndex.indexsemi + 1]
        cosine    == aIn.m[AmpIndex.indexsemi]
        sine      == aIn.m[AmpIndex.indexsemi + 1]
    IN  /\ aPc = "done"
        /\ aOut.semi.sigamp2 = sigcosine * sigcosine + sigsine * sigsine
        /\ aOut.semi.sigphi = << sigcosine * Abs(sine) + sigsine * Abs(cosine),
                                 sigcosine * sigcosine + sigsine * sigsine >>

=============================================================================
